---- MODULE Spec2Model ----
(***************************************************************************)
(* A model of snakecharmer: the engine that derives cobra flags, viper     *)
(* defaults and env bindings from a tagged result struct (AddFlags), and   *)
(* resolves flag > env > config file > default into the struct             *)
(* (UnmarshalExact).                                                       *)
(*                                                                         *)
(* Go strings are sequences of one-character strings, so that TrimSpace,   *)
(* strings.Split, filepath.Ext and key joining are computed, not assumed.  *)
(* Keys are lower case throughout (viper folds keys to lower case and      *)
(* looks them up case-insensitively).                                      *)
(***************************************************************************)
EXTENDS Integers, Sequences, FiniteSets, TLC

(* ------------------------------------------------------------------ *)
(* Bounds of the model                                                *)
(* ------------------------------------------------------------------ *)
MaxOpts == 2

MaxExtraOpts == 1

MaxSetCalls == 1

MaxResolves == 2

MaxFlagsPassed == 1

MaxEnvChanges == 1

(* ------------------------------------------------------------------ *)
(* Strings                                                            *)
(* ------------------------------------------------------------------ *)
Nil == "nil"

IsSpace(c) == c \in {" ", "\t"}

RECURSIVE TrimLeft(_)
TrimLeft(s) ==
  IF s # <<>> /\ IsSpace(Head(s)) THEN TrimLeft(Tail(s)) ELSE s

RECURSIVE TrimRight(_)
TrimRight(s) ==
  IF s # <<>> /\ IsSpace(s[Len(s)]) THEN TrimRight(SubSeq(s, 1, Len(s) - 1)) ELSE s

\* strings.TrimSpace
TrimSpace(s) == TrimRight(TrimLeft(s))

\* strings.Split(s, sep)[0]: everything before the first separator
RECURSIVE FirstSegment(_, _)
FirstSegment(s, sep) ==
  IF s = <<>> \/ Head(s) = sep THEN <<>>
  ELSE <<Head(s)>> \o FirstSegment(Tail(s), sep)

\* strings.TrimPrefix(filepath.Ext(path), "."): the text after the last dot
\* of the last path element, "" when that element has no dot
RECURSIVE ExtFrom(_, _)
ExtFrom(path, i) ==
  IF i < 1 \/ path[i] = "/" THEN <<>>
  ELSE IF path[i] = "." THEN SubSeq(path, i + 1, Len(path))
  ELSE ExtFrom(path, i - 1)

FileExt(path) == ExtFrom(path, Len(path))

\* the key of a field below a prefix
JoinKey(prefix, key) ==
  IF Len(prefix) > 0 THEN prefix \o <<".">> \o key ELSE key

\* the literals of the program
S_mapstructure == <<"m","a","p","s","t","r","u","c","t","u","r","e">>
S_snakecharmer == <<"s","n","a","k","e","c","h","a","r","m","e","r">>
S_env == <<"e","n","v">>
S_usage == <<"u","s","a","g","e">>
S_yaml == <<"y","a","m","l">>
S_yml == <<"y","m","l">>
S_json == <<"j","s","o","n">>
S_toml == <<"t","o","m","l">>
S_config == <<"c","o","n","f","i","g">>
S_jpg == <<"j","p","g">>
S_conf == <<"c","o","n","f">>
S_blank == <<" ">>
S_empty == <<>>

(* ------------------------------------------------------------------ *)
(* Result structs: a struct is a sequence of fields in declaration    *)
(* order. tags is the field's struct tag (a sequence of <<name,       *)
(* value>> pairs); ptr says whether the field is a pointer or         *)
(* interface and whether it is nil; kind is the kind of the           *)
(* dereferenced value; isnil and n are the value of a leaf (n         *)
(* identifies the content, n = 0 is the empty slice or map); sub is   *)
(* the fields of a struct-kinded field.                               *)
(* ------------------------------------------------------------------ *)
ScalarKinds == {"bool", "int", "uint", "float", "string"}

Field(name, tags, ptr, kind, isnil, n, sub) ==
  [name |-> name, tags |-> tags, ptr |-> ptr, kind |-> kind,
   isnil |-> isnil, n |-> n, sub |-> sub]

Leaf(name, tags, kind) == Field(name, tags, "ok", kind, FALSE, 1, <<>>)

\* reflect.StructTag.Get: the value of the first pair named tagName, else ""
RECURSIVE TagGet(_, _)
TagGet(tags, tagName) ==
  IF tags = <<>> THEN <<>>
  ELSE IF Head(tags)[1] = tagName THEN Head(tags)[2]
  ELSE TagGet(Tail(tags), tagName)

Omit(k) == k \o <<",","o">>

\* the struct of the tests (testStruct, testLoggingConfig, testLogLimitsConfig),
\* with one leaf of every supported kind, followed by an untagged struct
LimitsFields ==
  << Leaf("WarnsLimit", << <<S_snakecharmer, Omit(<<"a">>)>>, <<S_env, <<"A">>>>, <<S_usage, <<"h">>>> >>, "uint"),
     Field("ignoreMe", <<>>, "none", "bool", FALSE, 1, <<>>) >>

LoggingFields ==
  << Leaf("Level", << <<S_snakecharmer, Omit(<<"v">>)>>, <<S_env, <<"V">>>>, <<S_usage, <<"h">>>> >>, "string"),
     Leaf("LogJSON", << <<S_snakecharmer, Omit(<<"j">>)>>, <<S_usage, <<"h">>>> >>, "bool"),
     Field("LogLimits", << <<S_snakecharmer, Omit(<<"m">>)>> >>, "ok", "struct", FALSE, 0, LimitsFields),
     Leaf("LogDestinations", << <<S_snakecharmer, Omit(<<"d">>)>>, <<S_usage, <<"h">>>> >>, "map"),
     Field("ignoreMe", <<>>, "none", "bool", FALSE, 1, <<>>) >>

HiddenFields ==
  << Leaf("Inner", << <<S_snakecharmer, <<"x">>>>, <<S_usage, <<"h">>>> >>, "int") >>

TestStruct ==
  << Leaf("Workers", << <<S_snakecharmer, Omit(<<"w">>)>>, <<S_env, <<"W">>>>, <<S_usage, <<"h">>>> >>, "int"),
     Leaf("MaxBurst", << <<S_snakecharmer, Omit(<<"b">>)>>, <<S_usage, <<"h">>>> >>, "float"),
     Leaf("UpstreamURls", << <<S_snakecharmer, Omit(<<"u">>)>>, <<S_usage, <<"h">>>> >>, "slice"),
     Field("Logging", << <<S_snakecharmer, Omit(<<"l">>)>> >>, "ok", "struct", FALSE, 0, LoggingFields),
     Field("ignoreMe", <<>>, "none", "bool", FALSE, 1, <<>>),
     Field("Hidden", <<>>, "none", "struct", FALSE, 0, HiddenFields) >>

\* a struct tagged for both tag names, with different keys
DualStruct ==
  << Leaf("Port", << <<S_mapstructure, <<"w">>>>, <<S_snakecharmer, <<"q">>>>,
                     <<S_env, <<"W">>>>, <<S_usage, <<"h">>>> >>, "int"),
     Leaf("Tags", << <<S_mapstructure, <<"t">>>>, <<S_snakecharmer, <<"t">>>>,
                     <<S_env, <<"T">>>>, <<S_usage, <<"h">>>> >>, "map") >>

\* the tags of a field with key k, with and without a help text
KeyAndHelp(k) == << <<S_snakecharmer, k>>, <<S_usage, <<"h">>>> >>

KeyOnly(k) == << <<S_snakecharmer, k>> >>

\* structs the walk can stop at: a nil pointer field without and with a
\* tag, a leaf and a struct field without a help tag, and slices and maps
\* that are nil or empty
NilUntaggedStruct ==
  << Leaf("Workers", KeyAndHelp(<<"w">>), "int"),
     Field("Skipped", <<>>, "nil", "int", TRUE, 0, <<>>),
     Leaf("MaxBurst", KeyAndHelp(<<"b">>), "float") >>

NilTaggedStruct ==
  << Leaf("Workers", KeyAndHelp(<<"w">>), "int"),
     Field("Limit", KeyAndHelp(<<"a">>), "nil", "int", TRUE, 0, <<>>),
     Leaf("MaxBurst", KeyAndHelp(<<"b">>), "float") >>

NoHelpStruct ==
  << Leaf("Workers", KeyAndHelp(<<"w">>), "int"),
     Field("Logging", KeyOnly(<<"l">>), "ok", "struct", FALSE, 0,
           << Leaf("Level", KeyAndHelp(<<"v">>), "string") >>),
     Leaf("MaxBurst", KeyOnly(<<"b">>), "float"),
     Leaf("LogJSON", KeyAndHelp(<<"j">>), "bool") >>

EmptySliceStruct ==
  << Leaf("Workers", KeyAndHelp(<<"w">>), "int"),
     Field("UpstreamURls", KeyAndHelp(<<"u">>), "none", "slice", FALSE, 0, <<>>) >>

NilSliceStruct ==
  << Field("UpstreamURls", KeyAndHelp(<<"u">>), "none", "slice", TRUE, 0, <<>>),
     Leaf("Workers", KeyAndHelp(<<"w">>), "int") >>

NilMapStruct ==
  << Leaf("Workers", KeyAndHelp(<<"w">>), "int"),
     Field("LogDestinations", KeyAndHelp(<<"d">>), "none", "map", TRUE, 0, <<>>) >>

EmptyMapStruct ==
  << Leaf("Workers", KeyAndHelp(<<"w">>), "int"),
     Field("LogDestinations", KeyAndHelp(<<"d">>), "none", "map", FALSE, 0, <<>>) >>

BindStructs ==
  {TestStruct, NilUntaggedStruct, NilTaggedStruct, NoHelpStruct, EmptySliceStruct,
   NilSliceStruct, NilMapStruct, EmptyMapStruct}

\* the references the caller holds
RsRefs == {"r1", "r2"}

(* ------------------------------------------------------------------ *)
(* The engine and its options                                         *)
(* ------------------------------------------------------------------ *)
NoErr == "nil"

\* viper.SupportedExts
SupportedExts == <<S_json, S_toml, S_yaml, S_yml>>

InSeq(x, sq) == \E i \in 1..Len(sq) : sq[i] = x

\* fileExtSupported(ext): ext is one of viper.SupportedExts
fileExtSupported(ext) == InSeq(ext, SupportedExts)

\* the zero SnakeCharmer with the defaults of NewSnakeCharmer
NewEngine ==
  [resultStruct |-> Nil,
   fieldTagName |-> S_mapstructure,
   envTagName |-> S_env,
   flagHelpTagName |-> S_usage,
   configFileType |-> S_yaml,
   configFilePath |-> S_empty,
   configFileBaseName |-> S_config,
   viper |-> Nil,
   cmd |-> Nil,
   decoderConfigOptions |-> <<>>,
   ignoreUntaggedFields |-> FALSE]

Opt(op, x) == [op |-> op, x |-> x]

\* what a caller can pass as the result struct: kind is the reflect kind
\* of the value, elem what a non-nil pointer points at
RsArg(kind, isnil, elem, ref) == [kind |-> kind, isnil |-> isnil, elem |-> elem, ref |-> ref]

RsPointer(ref) == RsArg("ptr", FALSE, "struct", ref)

Out(e, err) == [e |-> e, err |-> err]

IsPanic(err) == err \in {"panic: reflect zero Value", "panic: nil viper", "panic: nil cmd"}

\* a faulty WithResultStruct: an engine that holds a result struct keeps it
WithResultStructOnce(rs, e) ==
  IF rs.kind = "ptr" /\ ~rs.isnil
  THEN IF rs.elem # "struct"
       THEN Out(e, "result struct must be a pointer to a struct")
       ELSE IF e.resultStruct # Nil THEN Out(e, NoErr)
       ELSE Out([e EXCEPT !.resultStruct = rs.ref], NoErr)
  ELSE IF rs.kind = "invalid"
       THEN Out(e, "panic: reflect zero Value")
       ELSE Out(e, "result struct must be a pointer to a struct")

WithResultStruct(rs, e) ==
  IF rs.kind = "ptr" /\ ~rs.isnil
  THEN IF rs.elem # "struct"
       THEN Out(e, "result struct must be a pointer to a struct")
       ELSE Out([e EXCEPT !.resultStruct = rs.ref], NoErr)
  ELSE IF rs.kind = "invalid"
       THEN Out(e, "panic: reflect zero Value")
       ELSE Out(e, "result struct must be a pointer to a struct")

\* a faulty WithFieldTagName: the name is checked trimmed and stored as given
WithFieldTagNameUntrimmed(s, e) ==
  IF Len(TrimSpace(s)) = 0 THEN Out(e, "invalid field tag name")
  ELSE Out([e EXCEPT !.fieldTagName = s], NoErr)

WithFieldTagName(s, e) ==
  LET tag == TrimSpace(s) IN
  IF Len(tag) = 0 THEN Out(e, "invalid field tag name")
  ELSE Out([e EXCEPT !.fieldTagName = tag], NoErr)

WithEnvTagName(s, e) ==
  LET tag == TrimSpace(s) IN
  IF Len(tag) = 0 THEN Out(e, "invalid envTagName")
  ELSE Out([e EXCEPT !.envTagName = tag], NoErr)

WithFlagHelpTagName(s, e) ==
  LET tag == TrimSpace(s) IN
  IF Len(tag) = 0 THEN Out(e, "invalid flag help tag name")
  ELSE Out([e EXCEPT !.flagHelpTagName = tag], NoErr)

WithConfigFileType(s, e) ==
  LET ext == TrimSpace(s) IN
  IF ~fileExtSupported(ext) THEN Out(e, "invalid config file type")
  ELSE Out([e EXCEPT !.configFileType = ext], NoErr)

\* a faulty WithConfigFilePath: the path is stored as given
WithConfigFilePathUntrimmed(s, e) ==
  Out([e EXCEPT !.configFilePath = s], NoErr)

WithConfigFilePath(s, e) ==
  Out([e EXCEPT !.configFilePath = TrimSpace(s)], NoErr)

WithConfigFileBaseName(s, e) ==
  LET name == TrimSpace(s) IN
  IF Len(name) = 0 THEN Out(e, "invalid config file base name")
  ELSE Out([e EXCEPT !.configFileBaseName = name], NoErr)

\* a decoder callback is [cb, x]: "weak" sets WeaklyTypedInput to x, "setTag"
\* sets TagName to x, "ignore" sets IgnoreUntaggedFields to x,
\* "engineTag" sets TagName to the engine's field tag name when it runs
Callback(cb, x) == [cb |-> cb, x |-> x]

WithDecoderConfigOption(opt, e) ==
  Out([e EXCEPT !.decoderConfigOptions = Append(@, opt)], NoErr)

\* a faulty WithIgnoreUntaggedFields: the decoder is not told
WithIgnoreUntaggedFieldsWalkOnly(on, e) ==
  Out([e EXCEPT !.ignoreUntaggedFields = on], NoErr)

WithIgnoreUntaggedFields(on, e) ==
  Out([e EXCEPT !.ignoreUntaggedFields = on,
                !.decoderConfigOptions = Append(@, Callback("ignore", on))], NoErr)

WithViper(v, e) == Out([e EXCEPT !.viper = v], NoErr)

WithCobraCommand(c, e) == Out([e EXCEPT !.cmd = c], NoErr)

\* opt(sch)
ApplyOption(o, e) ==
  CASE o.op = "WithResultStruct" -> WithResultStruct(o.x, e)
    [] o.op = "WithFieldTagName" -> WithFieldTagName(o.x, e)
    [] o.op = "WithEnvTagName" -> WithEnvTagName(o.x, e)
    [] o.op = "WithFlagHelpTagName" -> WithFlagHelpTagName(o.x, e)
    [] o.op = "WithConfigFileType" -> WithConfigFileType(o.x, e)
    [] o.op = "WithConfigFilePath" -> WithConfigFilePath(o.x, e)
    [] o.op = "WithConfigFileBaseName" -> WithConfigFileBaseName(o.x, e)
    [] o.op = "WithDecoderConfigOption" -> WithDecoderConfigOption(o.x, e)
    [] o.op = "WithIgnoreUntaggedFields" -> WithIgnoreUntaggedFields(o.x, e)
    [] o.op = "WithViper" -> WithViper(o.x, e)
    [] o.op = "WithCobraCommand" -> WithCobraCommand(o.x, e)

\* a faulty option loop: it goes on after an option failed and returns the
\* first error when all are applied
RECURSIVE ApplyOptionsAll(_, _, _)
ApplyOptionsAll(opts, e, n) ==
  LET Rest(r, t) == [e |-> t.e, err |-> IF r.err # NoErr THEN r.err ELSE t.err, n |-> t.n]
      Then(r) == IF IsPanic(r.err) THEN [e |-> r.e, err |-> r.err, n |-> n + 1]
                 ELSE Rest(r, ApplyOptionsAll(Tail(opts), r.e, n + 1))
  IN IF opts = <<>> THEN [e |-> e, err |-> NoErr, n |-> n]
     ELSE Then(ApplyOption(Head(opts), e))

\* for _, opt := range opts { if err := opt(sch); err != nil { return err } }
\* n counts the options that were applied (called), the failing one included
RECURSIVE ApplyOptions(_, _, _)
ApplyOptions(opts, e, n) ==
  LET Then(r) == IF r.err # NoErr THEN [e |-> r.e, err |-> r.err, n |-> n + 1]
                 ELSE ApplyOptions(Tail(opts), r.e, n + 1)
  IN IF opts = <<>> THEN [e |-> e, err |-> NoErr, n |-> n]
     ELSE Then(ApplyOption(Head(opts), e))

\* NewSnakeCharmer(opts...): the engine and the error it returns; created
\* says whether viper.New() was called
NewSnakeCharmerResult(opts) ==
  LET Then(r) ==
        IF r.err # NoErr THEN [e |-> r.e, err |-> r.err, created |-> FALSE]
        ELSE IF r.e.resultStruct = Nil
             THEN [e |-> r.e, err |-> "result struct is not set", created |-> FALSE]
        ELSE IF r.e.viper = Nil
             THEN [e |-> [r.e EXCEPT !.viper = "own"],
                   err |-> IF r.e.cmd = Nil THEN "cmd is not set" ELSE NoErr,
                   created |-> TRUE]
        ELSE [e |-> r.e,
              err |-> IF r.e.cmd = Nil THEN "cmd is not set" ELSE NoErr,
              created |-> FALSE]
  IN Then(ApplyOptions(opts, NewEngine, 0))

\* the getters of the engine
ResultStruct(e) == e.resultStruct

FieldTagName(e) == e.fieldTagName

EnvTagName(e) == e.envTagName

FlagHelpTagName(e) == e.flagHelpTagName

ConfigFileType(e) == e.configFileType

ConfigFilePath(e) == e.configFilePath

ConfigFileBaseName(e) == e.configFileBaseName

DecoderConfigOptions(e) == e.decoderConfigOptions

IgnoreUntaggedFields(e) == e.ignoreUntaggedFields

(* ------------------------------------------------------------------ *)
(* The external stores: the cobra flag set and the viper stores       *)
(* ------------------------------------------------------------------ *)
EmptyMap == [k \in {} |-> 0]

Put(f, k, v) == [x \in DOMAIN f \cup {k} |-> IF x = k THEN v ELSE f[x]]

\* a settings value: n identifies its content, repr says whether it is the
\* typed Go value or its text (an environment value, a flag's ValueString)
Val(n, repr) == [n |-> n, repr |-> repr]

\* viper.New()
NewViper ==
  [defaults |-> EmptyMap,
   pflags |-> {},
   env |-> EmptyMap,
   configFile |-> S_empty,
   configType |-> S_empty,
   configPaths |-> <<>>,
   configName |-> S_config,
   config |-> EmptyMap]

ViperRefs == {"vpr", "own"}

\* the walk's state: the flag set, the engine's viper store, and the panic
\* that stopped it
WalkState(fl, v, panic) == [flags |-> fl, v |-> v, panic |-> panic]

\* pflag FlagSet.Bool/Uint64/Int64/Float64/String/StringSlice/StringToString:
\* AddFlag panics when the name is already defined
DefineFlag(st, name, kind, n, help) ==
  IF name \in DOMAIN st.flags
  THEN [st EXCEPT !.panic = "flag redefined"]
  ELSE [st EXCEPT !.flags = Put(@, name,
          [kind |-> kind, def |-> n, help |-> help, val |-> n, changed |-> FALSE])]

\* a faulty SetDefault: it stores the zero value instead of the field's value
SetDefaultZero(e, st, name, n) ==
  IF st.panic # NoErr THEN st
  ELSE IF e.viper = Nil THEN [st EXCEPT !.panic = "nil viper"]
  ELSE [st EXCEPT !.v.defaults = Put(@, name, Val(0, "typed"))]

\* viper.SetDefault(name, value), on the engine's store (nil: a nil dereference)
SetDefault(e, st, name, n) ==
  IF st.panic # NoErr THEN st
  ELSE IF e.viper = Nil THEN [st EXCEPT !.panic = "nil viper"]
  ELSE [st EXCEPT !.v.defaults = Put(@, name, Val(n, "typed"))]

\* applySetting(rv, name, help): the flag and the default of one leaf, or an error
applySetting(e, st, f, name, help) ==
  CASE f.kind \in ScalarKinds ->
         [st |-> SetDefault(e, DefineFlag(st, name, f.kind, f.n, help), name, f.n), err |-> NoErr]
    [] f.kind = "slice" ->
         IF f.isnil \/ f.n = 0
         THEN [st |-> st, err |-> "value of flag is nil or empty"]
         ELSE [st |-> SetDefault(e, DefineFlag(st, name, f.kind, f.n, help), name, f.n), err |-> NoErr]
    [] f.kind = "map" ->
         IF f.isnil
         THEN [st |-> st, err |-> "value of flag is nil or empty"]
         ELSE [st |-> SetDefault(e, DefineFlag(st, name, f.kind, f.n, help), name, f.n), err |-> NoErr]
    [] OTHER -> [st |-> st, err |-> "unsupported type"]

\* viper.BindPFlag(key, flags.Lookup(key))
BindPFlag(st, key) ==
  IF key \notin DOMAIN st.flags THEN [st EXCEPT !.panic = "flag is nil"]
  ELSE [st EXCEPT !.v.pflags = @ \cup {key}]

\* a faulty BindEnv: the key is bound to the variable named as the key
BindEnvByKey(st, key, env) ==
  [st EXCEPT !.v.env = Put(@, key, (IF key \in DOMAIN @ THEN @[key] ELSE <<>>) \o <<key>>)]

\* viper.BindEnv(key, env)
BindEnv(st, key, env) ==
  [st EXCEPT !.v.env = Put(@, key, (IF key \in DOMAIN @ THEN @[key] ELSE <<>>) \o <<env>>)]

\* a faulty BindLeaf: a leaf without a help tag is bound with an empty help text
BindLeafNoHelpCheck(e, st, f, key) ==
  LET Bound(b, env) ==
        IF b.panic # NoErr THEN b
        ELSE IF Len(env) > 0 THEN BindEnv(b, key, env) ELSE b
      Applied(a) ==
        IF a.err # NoErr THEN [st EXCEPT !.panic = a.err]
        ELSE IF a.st.panic # NoErr THEN a.st
        ELSE Bound(BindPFlag(a.st, key), TagGet(f.tags, e.envTagName))
  IN IF e.cmd = Nil THEN [st EXCEPT !.panic = "nil cmd"]
     ELSE Applied(applySetting(e, st, f, key, TagGet(f.tags, e.flagHelpTagName)))

\* one leaf of the walk, after its key is known (snakecharmer.go 235-262)
BindLeaf(e, st, f, key) ==
  LET Bound(b, env) ==
        IF b.panic # NoErr THEN b
        ELSE IF Len(env) > 0 THEN BindEnv(b, key, env) ELSE b
      Applied(a) ==
        IF a.err # NoErr THEN [st EXCEPT !.panic = a.err]
        ELSE IF a.st.panic # NoErr THEN a.st
        ELSE Bound(BindPFlag(a.st, key), TagGet(f.tags, e.envTagName))
      Helped(help) ==
        IF Len(help) = 0 THEN [st EXCEPT !.panic = "help tag is not specified"]
        ELSE IF e.cmd = Nil THEN [st EXCEPT !.panic = "nil cmd"]
        ELSE Applied(applySetting(e, st, f, key, help))
  IN Helped(TagGet(f.tags, e.flagHelpTagName))

\* a faulty FieldKey: the whole tag value, modifiers included
WholeTagKey(fieldTag, prefix) == JoinKey(prefix, fieldTag)

\* the key of a tagged field: the first comma-separated segment of its tag,
\* below the prefix
FieldKey(fieldTag, prefix) == JoinKey(prefix, FirstSegment(fieldTag, ","))

\* a faulty handling of an untagged field: it is skipped whatever the engine says
UntaggedFieldSkipped(e, st) == st

\* what the walk does with a field that has no field-key tag: it goes on to
\* the next field, or panics
UntaggedField(e, st) ==
  IF e.ignoreUntaggedFields THEN st ELSE [st EXCEPT !.panic = "got untagged field"]

\* addFlags(input, prefix): the loop over the fields from field i on
RECURSIVE addFlags(_, _, _, _, _)
addFlags(e, fields, i, prefix, st) ==
  LET Tagged(f, fieldTag, key) ==
        IF f.kind = "struct"
        THEN addFlags(e, fields, i + 1, prefix, addFlags(e, f.sub, 1, key, st))
        ELSE addFlags(e, fields, i + 1, prefix, BindLeaf(e, st, f, key))
      Visit(f, fieldTag) ==
        IF f.ptr = "nil" THEN [st EXCEPT !.panic = "got nil for field"]
        ELSE IF Len(fieldTag) = 0
             THEN addFlags(e, fields, i + 1, prefix, UntaggedField(e, st))
        ELSE Tagged(f, fieldTag, FieldKey(fieldTag, prefix))
  IN IF st.panic # NoErr \/ i > Len(fields) THEN st
     ELSE Visit(fields[i], TagGet(fields[i].tags, e.fieldTagName))

(* ------------------------------------------------------------------ *)
(* The file system and the config files                               *)
(* ------------------------------------------------------------------ *)
\* the content of a config file: the format it is written in and the
\* settings it holds (key -> content id); valid = FALSE is a file no parser accepts
Content(fmt, valid, data) == [fmt |-> fmt, valid |-> valid, data |-> data]

File(c) == [type |-> "file", content |-> c]

Dir == [type |-> "dir", content |-> Content(S_empty, FALSE, EmptyMap)]

StatErr == [type |-> "staterr", content |-> Content(S_empty, FALSE, EmptyMap)]

K_w == <<"w">>
K_lma == <<"l", ".", "m", ".", "a">>
K_zz == <<"z", "z">>

P_c == <<"c">>
P_ctoml == <<"c", ".">> \o S_toml
P_cconf == <<"c", ".">> \o S_conf
P_d == <<"d">>
P_g == <<"g">>
P_e == <<"e">>
P_n == <<"n">>
P_p == <<"p">>
P_kjson == <<"k", ".">> \o S_json

\* filepath.Abs: the working directory is the root
Abs(p) == IF p # <<>> /\ Head(p) = "/" THEN p ELSE <<"/">> \o p

\* filepath.Join(dir, name)
JoinPath(dir, name) == dir \o <<"/">> \o name

\* the files of the model, by absolute path; a path outside is a path
\* that does not exist
FS ==
  (Abs(P_c) :> File(Content(S_yaml, TRUE, (K_w :> 2) @@ (K_lma :> 2)))) @@
  (Abs(P_cconf) :> File(Content(S_yaml, TRUE, (K_lma :> 6)))) @@
  (Abs(P_ctoml) :> File(Content(S_toml, TRUE, (K_w :> 5)))) @@
  (Abs(P_kjson) :> File(Content(S_json, TRUE, (K_w :> 8) @@ (K_zz :> 8)))) @@
  (Abs(P_d) :> Dir) @@
  (JoinPath(Abs(P_d), S_config \o <<".">> \o S_toml) :> File(Content(S_toml, TRUE, (K_w :> 7)))) @@
  (JoinPath(Abs(P_d), S_conf \o <<".">> \o S_json) :> File(Content(S_json, TRUE, (K_lma :> 9)))) @@
  (Abs(P_g) :> Dir) @@
  (JoinPath(Abs(P_g), S_config \o <<".">> \o S_yaml) :> File(Content(S_yaml, TRUE, (K_w :> 3)))) @@
  (Abs(P_e) :> Dir) @@
  (Abs(P_p) :> StatErr)

\* os.Stat(path): "notexist", "staterr" (any other failure), "dir" or "file"
Stat(path) ==
  IF Abs(path) \in DOMAIN FS THEN FS[Abs(path)].type ELSE "notexist"

\* a parser of format fmt on a file: a YAML parser also reads JSON
Parses(fmt, c) ==
  /\ c.valid
  /\ \/ fmt = c.fmt
     \/ fmt \in {S_yaml, S_yml} /\ c.fmt \in {S_yaml, S_yml, S_json}

(* ------------------------------------------------------------------ *)
(* viper's config-file API. v is a store, log the sequence of calls   *)
(* the engine has made on the outside world in the current operation  *)
(* ------------------------------------------------------------------ *)
Call(name, arg) == [call |-> name, arg |-> arg]

\* viper.AddConfigPath(in)
AddConfigPath(v, in) ==
  IF in # S_empty /\ ~InSeq(Abs(in), v.configPaths)
  THEN [v EXCEPT !.configPaths = Append(@, Abs(in))]
  ELSE v

\* a faulty SetConfigName: the exact file of the store stays set
SetConfigNameKeepsFile(v, in) ==
  IF in # S_empty THEN [v EXCEPT !.configName = in] ELSE v

\* viper.SetConfigName(in)
SetConfigName(v, in) ==
  IF in # S_empty THEN [v EXCEPT !.configName = in, !.configFile = S_empty] ELSE v

\* viper.SetConfigType(in)
SetConfigType(v, in) ==
  IF in # S_empty THEN [v EXCEPT !.configType = in] ELSE v

\* viper.SetConfigFile(in)
SetConfigFile(v, in) ==
  IF in # S_empty THEN [v EXCEPT !.configFile = in] ELSE v

\* viper's searchInPath over the config paths from index i on: the first
\* configName.ext that exists, else configName itself when a type is set
RECURSIVE SearchExts(_, _, _)
SearchExts(v, dir, j) ==
  IF j > Len(SupportedExts) THEN
    IF v.configType # S_empty /\ JoinPath(dir, v.configName) \in DOMAIN FS
    THEN JoinPath(dir, v.configName) ELSE S_empty
  ELSE LET cand == JoinPath(dir, v.configName \o <<".">> \o SupportedExts[j]) IN
       IF cand \in DOMAIN FS THEN cand ELSE SearchExts(v, dir, j + 1)

RECURSIVE SearchPaths(_, _)
SearchPaths(v, i) ==
  IF i > Len(v.configPaths) THEN S_empty
  ELSE LET hit == SearchExts(v, v.configPaths[i], 1) IN
       IF hit # S_empty THEN hit ELSE SearchPaths(v, i + 1)

\* viper.getConfigFile(): the explicit file, else the one found (and kept)
GetConfigFile(v) ==
  IF v.configFile # S_empty THEN v.configFile ELSE SearchPaths(v, 1)

\* viper.getConfigType(): the explicit type, else the file's extension
GetConfigType(v) ==
  IF v.configType # S_empty THEN v.configType ELSE FileExt(GetConfigFile(v))

\* a faulty ReadInConfig: a store that holds a config does not read another
ReadInConfigOnce(v) ==
  IF v.config # EmptyMap THEN [v |-> v, err |-> "config already read"]
  ELSE IF GetConfigFile(v) = S_empty THEN [v |-> v, err |-> "config file not found"]
  ELSE IF Stat(GetConfigFile(v)) # "file" THEN [v |-> v, err |-> "read error"]
  ELSE [v |-> [v EXCEPT !.config = FS[Abs(GetConfigFile(v))].content.data,
                        !.configFile = GetConfigFile(v)],
        err |-> NoErr]

\* viper.ReadInConfig(): the store after it and its error
ReadInConfig(v) ==
  LET Read(v1, file, fmt) ==
        IF ~InSeq(fmt, SupportedExts) THEN [v |-> v1, err |-> "unsupported config type"]
        ELSE IF Stat(file) # "file" THEN [v |-> v1, err |-> "read error"]
        ELSE IF ~Parses(fmt, FS[Abs(file)].content) THEN [v |-> v1, err |-> "parse error"]
        ELSE [v |-> [v1 EXCEPT !.config = FS[Abs(file)].content.data], err |-> NoErr]
      Found(file) ==
        IF file = S_empty THEN [v |-> v, err |-> "config file not found"]
        ELSE Read([v EXCEPT !.configFile = file], file,
                  GetConfigType([v EXCEPT !.configFile = file]))
  IN Found(GetConfigFile(v))

(* ------------------------------------------------------------------ *)
(* The config source resolver                                         *)
(* ------------------------------------------------------------------ *)
\* a faulty result of findConfigFile: found and no error, whatever happened
FindResultAlwaysFound(found, err, v, log) ==
  [found |-> TRUE, err |-> NoErr, v |-> v, log |-> log]

\* what findConfigFile returns, with the store and the calls made so far
FindResult(found, err, v, log) == [found |-> found, err |-> err, v |-> v, log |-> log]

\* findConfigFile()
findConfigFile(e, v, log) ==
  LET Classify(st, log1, fext) ==
       CASE st = "dir" ->
              FindResult(TRUE, NoErr,
                SetConfigName(AddConfigPath(v, e.configFilePath), e.configFileBaseName),
                log1 \o <<Call("AddConfigPath", e.configFilePath),
                          Call("SetConfigName", e.configFileBaseName)>>)
         [] st = "file" ->
              IF Len(fext) = 0 \/ ~fileExtSupported(fext)
              THEN FindResult(TRUE, NoErr,
                     SetConfigFile(SetConfigType(v, e.configFileType), e.configFilePath),
                     log1 \o <<Call("SetConfigType", e.configFileType),
                               Call("SetConfigFile", e.configFilePath)>>)
              ELSE FindResult(TRUE, NoErr,
                     SetConfigFile(v, e.configFilePath),
                     Append(log1, Call("SetConfigFile", e.configFilePath)))
         [] st = "notexist" ->
              FindResult(FALSE, "no such file or directory", v, log1)
         [] OTHER ->
              FindResult(FALSE, "schrodinger: may or may not exist", v, log1)
  IN IF Len(e.configFilePath) = 0
     THEN FindResult(FALSE, "config file path is an empty string", v, log)
     ELSE Classify(Stat(e.configFilePath), Append(log, Call("Stat", e.configFilePath)),
                   FileExt(e.configFilePath))

\* a faulty MergeResult: the error is dropped
MergeResultSilent(err, v, log) == [err |-> NoErr, v |-> v, log |-> log]

MergeResult(err, v, log) == [err |-> err, v |-> v, log |-> log]

\* mergeInConfigFile()
mergeInConfigFile(e, v, log) ==
  LET Read(r, log2) ==
        IF r.err # NoErr THEN MergeResult("while reading config: " \o r.err, r.v, log2)
        ELSE MergeResult(NoErr, r.v, log2)
      Found(f) ==
        IF f.err # NoErr THEN MergeResult("while finding config: " \o f.err, f.v, f.log)
        ELSE IF ~f.found THEN MergeResult(NoErr, f.v, f.log)
        ELSE Read(ReadInConfig(f.v), Append(f.log, Call("ReadInConfig", GetConfigFile(f.v))))
  IN IF Len(e.configFilePath) = 0
     THEN MergeResult("config file path is an empty string", v, log)
     ELSE Found(findConfigFile(e, v, log))

(* ------------------------------------------------------------------ *)
(* Resolution: viper's layered lookup and the strict decode           *)
(* ------------------------------------------------------------------ *)
\* the environment: variable name -> -1 (unset), 0 (set to the empty
\* string) or the id of a non-empty value
EnvNames == {<<"W">>, <<"A">>, <<"T">>}

EnvUnset == -1

\* viper.getEnv: an empty value counts as unset (AllowEmptyEnv is off)
GetEnv(environ, name) ==
  IF name \in DOMAIN environ /\ environ[name] > 0 THEN environ[name] ELSE EnvUnset

RECURSIVE FirstEnv(_, _, _)
FirstEnv(environ, names, i) ==
  IF i > Len(names) THEN EnvUnset
  ELSE IF GetEnv(environ, names[i]) # EnvUnset THEN GetEnv(environ, names[i])
  ELSE FirstEnv(environ, names, i + 1)

\* how viper hands on a flag's value: typed for int64, bool, stringSlice and
\* stringToString flags (and a string is its own text), ValueString() otherwise
FlagRepr(kind) == IF kind \in {"int", "bool", "slice", "map", "string"} THEN "typed" ELSE "text"

NoVal == Val(-1, "none")

\* a faulty lookup: the config file is asked before the environment
FindConfigFirst(v, fl, environ, k) ==
  LET Below(env) ==
        IF k \in DOMAIN v.config THEN Val(v.config[k], "typed")
        ELSE IF env # EnvUnset THEN Val(env, "text")
        ELSE IF k \in DOMAIN v.defaults THEN v.defaults[k]
        ELSE IF k \in v.pflags /\ k \in DOMAIN fl THEN Val(fl[k].def, FlagRepr(fl[k].kind))
        ELSE NoVal
  IN IF k \in v.pflags /\ k \in DOMAIN fl /\ fl[k].changed
       THEN Val(fl[k].val, FlagRepr(fl[k].kind))
     ELSE Below(IF k \in DOMAIN v.env THEN FirstEnv(environ, v.env[k], 1) ELSE EnvUnset)

\* viper.find(key): flag if changed, env, config file, default, flag default
Find(v, fl, environ, k) ==
  LET Below(env) ==
        IF env # EnvUnset THEN Val(env, "text")
        ELSE IF k \in DOMAIN v.config THEN Val(v.config[k], "typed")
        ELSE IF k \in DOMAIN v.defaults THEN v.defaults[k]
        ELSE IF k \in v.pflags /\ k \in DOMAIN fl THEN Val(fl[k].def, FlagRepr(fl[k].kind))
        ELSE NoVal
  IN IF k \in v.pflags /\ k \in DOMAIN fl /\ fl[k].changed
       THEN Val(fl[k].val, FlagRepr(fl[k].kind))
     ELSE Below(IF k \in DOMAIN v.env THEN FirstEnv(environ, v.env[k], 1) ELSE EnvUnset)

\* viper.AllKeys()
AllKeys(v) == v.pflags \cup DOMAIN v.env \cup DOMAIN v.config \cup DOMAIN v.defaults

\* viper.AllSettings(): every key that has a value, with its effective value
AllSettings(v, fl, environ) ==
  LET Keep(all) == [k \in {x \in DOMAIN all : all[x] # NoVal} |-> all[k]]
  IN Keep([k \in AllKeys(v) |-> Find(v, fl, environ, k)])

\* viper's defaultDecoderConfig
DefaultDecoderConfig ==
  [TagName |-> S_mapstructure, WeaklyTypedInput |-> TRUE, IgnoreUntaggedFields |-> FALSE,
   ErrorUnused |-> FALSE]

\* one viper.DecoderConfigOption applied to the decoder config
ApplyCallback(e, dc, cb) ==
  CASE cb.cb = "weak" -> [dc EXCEPT !.WeaklyTypedInput = cb.x]
    [] cb.cb = "setTag" -> [dc EXCEPT !.TagName = cb.x]
    [] cb.cb = "ignore" -> [dc EXCEPT !.IgnoreUntaggedFields = cb.x]
    [] cb.cb = "engineTag" -> [dc EXCEPT !.TagName = e.fieldTagName]

RECURSIVE ApplyCallbacks(_, _, _)
ApplyCallbacks(e, dc, cbs) ==
  IF cbs = <<>> THEN dc
  ELSE ApplyCallbacks(e, ApplyCallback(e, dc, Head(cbs)), Tail(cbs))

\* a faulty decoder config: unused keys are not an error (viper.Unmarshal)
DecoderConfigLenient(e, cbs) == ApplyCallbacks(e, DefaultDecoderConfig, cbs)

\* the config of viper.UnmarshalExact(rawVal, opts...)
DecoderConfig(e, cbs) ==
  [ApplyCallbacks(e, DefaultDecoderConfig, cbs) EXCEPT !.ErrorUnused = TRUE]

\* whether mapstructure (with viper's string-to-slice hook) can put a value
\* into a field of this kind
Decodes(val, kind, dc) ==
  \/ val.repr = "typed"
  \/ /\ val.repr = "text"
     /\ \/ kind \in {"string", "slice"}
        \/ kind \in {"bool", "int", "uint", "float"} /\ dc.WeaklyTypedInput

DecodeAcc(fields, used, bad) == [fields |-> fields, used |-> used, bad |-> bad]

\* mapstructure's decode of a settings map into a struct: the fields after
\* it, the settings keys that found a field, and those whose value did not
\* convert. A field without a tag is matched by its name, which is no key
\* of the model.
RECURSIVE DecodeStruct(_, _, _, _, _, _)
DecodeStruct(fields, i, prefix, settings, dc, acc) ==
  LET Rest(acc2) == DecodeStruct(fields, i + 1, prefix, settings, dc, acc2)
      Nested(f, sub) ==
        Rest(DecodeAcc(Append(acc.fields, [f EXCEPT !.sub = sub.fields]), sub.used, sub.bad))
      Keyed(f, key) ==
        IF f.kind = "struct"
          THEN Nested(f, DecodeStruct(f.sub, 1, key, settings, dc,
                                      DecodeAcc(<<>>, acc.used, acc.bad)))
        ELSE IF key \notin DOMAIN settings
          THEN Rest([acc EXCEPT !.fields = Append(@, f)])
        ELSE IF Decodes(settings[key], f.kind, dc)
          THEN Rest(DecodeAcc(Append(acc.fields,
                                [f EXCEPT !.n = settings[key].n, !.isnil = FALSE,
                                          !.ptr = IF @ = "nil" THEN "ok" ELSE @]),
                              acc.used \cup {key}, acc.bad))
        ELSE Rest(DecodeAcc(Append(acc.fields, f), acc.used \cup {key}, acc.bad \cup {key}))
      Named(f, tagValue, name) ==
        IF tagValue = <<>> /\ dc.IgnoreUntaggedFields
          THEN Rest([acc EXCEPT !.fields = Append(@, f)])
        ELSE Keyed(f, JoinKey(prefix, IF name = <<>> THEN <<f.name>> ELSE name))
      Visit(f, tagValue) == Named(f, tagValue, FirstSegment(tagValue, ","))
  IN IF i > Len(fields) THEN acc
     ELSE Visit(fields[i], TagGet(fields[i].tags, dc.TagName))

\* viper.UnmarshalExact(rawVal, opts...): the struct after it, the values it
\* decoded by key, and its error (a key without a field, or a value that does not convert)
ViperUnmarshalExact(e, v, fl, environ, fields, cbs) ==
  LET Result(settings, dc, d) ==
        [fields |-> d.fields,
         decoded |-> [k \in d.used \ d.bad |-> settings[k].n],
         err |-> IF d.bad # {} THEN "cannot decode value"
                 ELSE IF DOMAIN settings \ d.used # {} /\ dc.ErrorUnused
                   THEN "has invalid keys"
                 ELSE NoErr]
      Decode(settings, dc) ==
        Result(settings, dc,
               DecodeStruct(fields, 1, <<>>, settings, dc, DecodeAcc(<<>>, {}, {})))
  IN Decode(AllSettings(v, fl, environ), DecoderConfig(e, cbs))

(* ------------------------------------------------------------------ *)
(* The state                                                          *)
(* ------------------------------------------------------------------ *)
VARIABLES
  phase,     \* "start", "ready" (constructed), "failed" (construction error), "panicked"
  sch,       \* the SnakeCharmer
  structs,   \* the caller's result structs, by reference
  flags,     \* the persistent flag set of the cobra command
  vp,        \* the viper stores, by reference
  environ,   \* the process environment
  last,      \* the last step: its name, options, error, outside calls, decoded values,
             \* and what findConfigFile returned as found
  bindSnap,  \* the engine and its result struct as they were when AddFlags ran
  cnt        \* how many Set, UnmarshalExact, flag and environment steps were taken

vars == <<phase, sch, structs, flags, vp, environ, last, bindSnap, cnt>>

Last(op, opts, err, log, decoded) ==
  [op |-> op, opts |-> opts, err |-> err, log |-> log, decoded |-> decoded, found |-> FALSE]

NoSnap == [bound |-> FALSE, e |-> NewEngine, fields |-> <<>>]

\* the options a caller passes
PaddedSnakecharmer == <<" ">> \o S_snakecharmer \o <<" ">>

\* the options of the model, in tables (their arguments are of different
\* types): one failing and one succeeding argument of every option
Options ==
  << Opt("WithResultStruct", RsArg("invalid", TRUE, "none", Nil)),      \* untyped nil
     Opt("WithResultStruct", RsArg("ptr", TRUE, "struct", Nil)),        \* (*T)(nil)
     Opt("WithResultStruct", RsArg("string", FALSE, "none", Nil)),      \* "snake charmer"
     Opt("WithResultStruct", RsArg("ptr", FALSE, "string", Nil)),       \* &s
     Opt("WithResultStruct", RsArg("ptr", FALSE, "time", Nil)),         \* &time.Time{}
     Opt("WithResultStruct", RsArg("struct", FALSE, "none", Nil)),      \* *result
     Opt("WithResultStruct", RsPointer("r2")),
     Opt("WithFieldTagName", S_blank),
     Opt("WithFieldTagName", PaddedSnakecharmer),
     Opt("WithEnvTagName", S_empty),
     Opt("WithEnvTagName", <<"e", "n", " ">>),
     Opt("WithFlagHelpTagName", S_blank),
     Opt("WithFlagHelpTagName", <<"h", "e", "l", "p">>),
     Opt("WithConfigFileType", S_blank),
     Opt("WithConfigFileType", S_jpg),
     Opt("WithConfigFileType", S_json),
     Opt("WithConfigFileType", <<" ">> \o S_toml),
     Opt("WithConfigFilePath", S_blank),
     Opt("WithConfigFilePath", <<" ">> \o P_c \o <<" ">>),
     Opt("WithConfigFileBaseName", S_blank),
     Opt("WithConfigFileBaseName", S_conf \o <<" ">>),
     Opt("WithDecoderConfigOption", Callback("weak", TRUE)),
     Opt("WithIgnoreUntaggedFields", TRUE),
     Opt("WithViper", Nil),
     Opt("WithCobraCommand", Nil) >>

\* the options that matter to binding and resolution
ResolveOptions ==
  << Opt("WithConfigFilePath", S_blank),
     Opt("WithConfigFilePath", P_c),
     Opt("WithConfigFilePath", P_cconf),
     Opt("WithConfigFilePath", P_ctoml),
     Opt("WithConfigFilePath", P_kjson),
     Opt("WithConfigFilePath", P_d),
     Opt("WithConfigFilePath", P_e),
     Opt("WithConfigFilePath", P_n),
     Opt("WithConfigFilePath", P_p),
     Opt("WithConfigFileType", S_json),
     Opt("WithConfigFileBaseName", S_conf),
     Opt("WithFieldTagName", S_mapstructure),
     Opt("WithIgnoreUntaggedFields", FALSE),
     Opt("WithDecoderConfigOption", Callback("setTag", S_mapstructure)),
     Opt("WithResultStruct", RsPointer("r2")) >>

\* the options that matter to locating the config file
ResolverOptions ==
  << Opt("WithConfigFilePath", S_blank),
     Opt("WithConfigFilePath", P_c),
     Opt("WithConfigFilePath", P_cconf),
     Opt("WithConfigFilePath", P_ctoml),
     Opt("WithConfigFilePath", P_kjson),
     Opt("WithConfigFilePath", P_d),
     Opt("WithConfigFilePath", P_g),
     Opt("WithConfigFilePath", P_e),
     Opt("WithConfigFilePath", P_n),
     Opt("WithConfigFilePath", P_p),
     Opt("WithConfigFileType", S_json),
     Opt("WithConfigFileBaseName", S_conf) >>

\* the option lists the tests start from
BaseOptions ==
  << <<Opt("WithResultStruct", RsPointer("r1")), Opt("WithFieldTagName", S_snakecharmer),
       Opt("WithViper", "vpr"), Opt("WithCobraCommand", "cmd"),
       Opt("WithIgnoreUntaggedFields", TRUE)>>,
     <<Opt("WithResultStruct", RsPointer("r1")), Opt("WithCobraCommand", "cmd")>>,
     <<>> >>

\* the lists of up to n options of a table, as lists of indexes
IndexLists(table, n) == UNION {[1..k -> 1..Len(table)] : k \in 0..n}

OptsOf(table, ix) == [i \in DOMAIN ix |-> table[ix[i]]]

InitWith(S) ==
  /\ phase = "start"
  /\ sch = NewEngine
  /\ \E s \in S : structs = [r \in RsRefs |-> IF r = "r1" THEN s ELSE DualStruct]
  /\ flags = EmptyMap
  /\ vp = [r \in ViperRefs |-> NewViper]
  /\ environ = [n \in EnvNames |-> EnvUnset]
  /\ last = Last("none", <<>>, NoErr, <<>>, EmptyMap)
  /\ bindSnap = NoSnap
  /\ cnt = [set |-> 0, resolve |-> 0, flag |-> 0, env |-> 0]

\* the well-formed structs
Init == InitWith({TestStruct, DualStruct})

(* ------------------------------------------------------------------ *)
(* The operations                                                     *)
(* ------------------------------------------------------------------ *)
\* sch, err := NewSnakeCharmer(opts...)
NewSnakeCharmer(opts) ==
  LET Then(r) ==
        /\ sch' = r.e
        /\ phase' = IF IsPanic(r.err) THEN "panicked"
                    ELSE IF r.err # NoErr THEN "failed" ELSE "ready"
        /\ last' = Last("NewSnakeCharmer", opts, r.err, <<>>, EmptyMap)
  IN /\ phase = "start"
     /\ Then(NewSnakeCharmerResult(opts))
     /\ UNCHANGED <<structs, flags, vp, environ, bindSnap, cnt>>

\* err := sch.Set(opts...)
Set(opts) ==
  LET Then(r) ==
        /\ sch' = r.e
        /\ phase' = IF IsPanic(r.err) THEN "panicked" ELSE phase
        /\ last' = Last("Set", opts, r.err, <<>>, EmptyMap)
  IN /\ phase = "ready"
     /\ cnt.set < MaxSetCalls
     /\ cnt.resolve < MaxResolves
     /\ Then(ApplyOptions(opts, sch, 0))
     /\ cnt' = [cnt EXCEPT !.set = @ + 1]
     /\ UNCHANGED <<structs, flags, vp, environ, bindSnap>>

\* the store the engine points at (a fresh one stands in for a nil pointer,
\* which panics before it is written)
EngineViper(e, stores) == IF e.viper = Nil THEN NewViper ELSE stores[e.viper]

\* sch.AddFlags()
AddFlagsResult(e, fields, fl, v) == addFlags(e, fields, 1, <<>>, WalkState(fl, v, NoErr))

AddFlags ==
  LET Then(r) ==
        /\ flags' = r.flags
        /\ vp' = IF sch.viper = Nil THEN vp ELSE [vp EXCEPT ![sch.viper] = r.v]
        /\ phase' = IF r.panic # NoErr THEN "panicked" ELSE phase
        /\ last' = Last("AddFlags", <<>>, r.panic, <<>>, EmptyMap)
  IN /\ phase = "ready"
     /\ Then(AddFlagsResult(sch, structs[sch.resultStruct], flags, EngineViper(sch, vp)))
     /\ bindSnap' = [bound |-> TRUE, e |-> sch, fields |-> structs[sch.resultStruct]]
     /\ UNCHANGED <<sch, structs, environ, cnt>>

\* sch.UnmarshalExact(): the engine, its store and its result struct after
\* the call, the error returned, the outside calls made, the values decoded by key
UnmarshalExactResult(e, v, fl, env, fields) ==
  LET Decoded(m, cbs, d) ==
        [e |-> [e EXCEPT !.decoderConfigOptions = cbs], v |-> m.v, fields |-> d.fields,
         err |-> IF d.err # NoErr
                 THEN "while unmarshalling config, flags, and env vars: " \o d.err
                 ELSE NoErr,
         log |-> Append(m.log, Call("UnmarshalExact", S_empty)), decoded |-> d.decoded]
      Merged(m, cbs) ==
        IF m.err # NoErr
        THEN [e |-> e, v |-> m.v, fields |-> fields, err |-> m.err, log |-> m.log,
              decoded |-> EmptyMap]
        ELSE Decoded(m, cbs, ViperUnmarshalExact(e, m.v, fl, env, fields, cbs))
  IN Merged(IF Len(e.configFilePath) > 0
            THEN mergeInConfigFile(e, v, <<>>)
            ELSE MergeResult(NoErr, v, <<>>),
            IF e.fieldTagName # S_mapstructure
            THEN Append(e.decoderConfigOptions, Callback("engineTag", S_empty))
            ELSE e.decoderConfigOptions)

\* a nil viper pointer is dereferenced by the first store call that is reached
NilViperPanics(e) ==
  /\ e.viper = Nil
  /\ \/ Len(e.configFilePath) = 0
     \/ Stat(e.configFilePath) \in {"dir", "file"}

UnmarshalExact ==
  LET Then(r) ==
        /\ sch' = r.e
        /\ vp' = IF sch.viper = Nil THEN vp ELSE [vp EXCEPT ![sch.viper] = r.v]
        /\ structs' = [structs EXCEPT ![sch.resultStruct] = r.fields]
        /\ last' = Last("UnmarshalExact", <<>>, r.err, r.log, r.decoded)
        /\ phase' = phase
  IN /\ phase = "ready"
     /\ cnt.resolve < MaxResolves
     /\ IF NilViperPanics(sch)
        THEN /\ phase' = "panicked"
             /\ last' = Last("UnmarshalExact", <<>>, "panic: nil viper", <<>>, EmptyMap)
             /\ UNCHANGED <<sch, structs, vp>>
        ELSE Then(UnmarshalExactResult(sch, EngineViper(sch, vp), flags, environ,
                                       structs[sch.resultStruct]))
     /\ cnt' = [cnt EXCEPT !.resolve = @ + 1]
     /\ UNCHANGED <<flags, environ, bindSnap>>

\* a nil viper pointer is dereferenced by findConfigFile's first store call
NilViperPanicsInFind(e) ==
  /\ e.viper = Nil
  /\ Len(e.configFilePath) > 0
  /\ Stat(e.configFilePath) \in {"dir", "file"}

\* found, err := sch.findConfigFile(), called on its own as the package's tests do
CallFindConfigFile ==
  LET Then(r) ==
        /\ vp' = IF sch.viper = Nil THEN vp ELSE [vp EXCEPT ![sch.viper] = r.v]
        /\ last' = [Last("findConfigFile", <<>>, r.err, r.log, EmptyMap)
                      EXCEPT !.found = r.found]
        /\ phase' = phase
  IN /\ phase = "ready"
     /\ cnt.resolve < MaxResolves
     /\ IF NilViperPanicsInFind(sch)
        THEN /\ phase' = "panicked"
             /\ last' = Last("findConfigFile", <<>>, "panic: nil viper", <<>>, EmptyMap)
             /\ UNCHANGED vp
        ELSE Then(findConfigFile(sch, EngineViper(sch, vp), <<>>))
     /\ cnt' = [cnt EXCEPT !.resolve = @ + 1]
     /\ UNCHANGED <<sch, structs, flags, environ, bindSnap>>

\* err := sch.mergeInConfigFile(), called on its own as the package's tests do
CallMergeInConfigFile ==
  LET Then(r) ==
        /\ vp' = IF sch.viper = Nil THEN vp ELSE [vp EXCEPT ![sch.viper] = r.v]
        /\ last' = Last("mergeInConfigFile", <<>>, r.err, r.log, EmptyMap)
        /\ phase' = phase
  IN /\ phase = "ready"
     /\ cnt.resolve < MaxResolves
     /\ IF NilViperPanicsInFind(sch)
        THEN /\ phase' = "panicked"
             /\ last' = Last("mergeInConfigFile", <<>>, "panic: nil viper", <<>>, EmptyMap)
             /\ UNCHANGED vp
        ELSE Then(mergeInConfigFile(sch, EngineViper(sch, vp), <<>>))
     /\ cnt' = [cnt EXCEPT !.resolve = @ + 1]
     /\ UNCHANGED <<sch, structs, flags, environ, bindSnap>>

\* the command line is parsed: flag k is passed with value n
FlagKeys == {K_w, K_lma, <<"t">>}

FlagValues == {4}

ParseFlags(k, n) ==
  /\ phase = "ready"
  /\ cnt.flag < MaxFlagsPassed
  /\ cnt.resolve < MaxResolves
  /\ k \in DOMAIN flags
  /\ flags' = [flags EXCEPT ![k].val = n, ![k].changed = TRUE]
  /\ last' = Last("ParseFlags", <<>>, NoErr, <<>>, EmptyMap)
  /\ cnt' = [cnt EXCEPT !.flag = @ + 1]
  /\ UNCHANGED <<phase, sch, structs, vp, environ, bindSnap>>

\* the environment changes: os.Setenv(name, value), value 0 the empty
\* string. Nothing reads the environment but a bound key's lookup, so the
\* changes before AddFlags are left out.
EnvValues == {0, 3}

Setenv(name, n) ==
  /\ phase = "ready"
  /\ bindSnap.bound
  /\ cnt.env < MaxEnvChanges
  /\ cnt.resolve < MaxResolves
  /\ environ[name] # n
  /\ environ' = [environ EXCEPT ![name] = n]
  /\ last' = Last("Setenv", <<>>, NoErr, <<>>, EmptyMap)
  /\ cnt' = [cnt EXCEPT !.env = @ + 1]
  /\ UNCHANGED <<phase, sch, structs, flags, vp, bindSnap>>

\* binding and resolution, from the option lists of the tests with up to
\* MaxExtraOpts more options
Next ==
  \/ \E b \in 1..2, x \in IndexLists(ResolveOptions, MaxExtraOpts) :
       NewSnakeCharmer(BaseOptions[b] \o OptsOf(ResolveOptions, x))
  \/ \E x \in IndexLists(ResolveOptions, MaxExtraOpts) :
       x # <<>> /\ Set(OptsOf(ResolveOptions, x))
  \/ AddFlags
  \/ UnmarshalExact
  \/ \E k \in DOMAIN flags \cap FlagKeys, n \in FlagValues : ParseFlags(k, n)
  \/ \E name \in EnvNames, n \in EnvValues : Setenv(name, n)

Spec == Init /\ [][Next]_vars

\* construction and reconfiguration, over every list of up to MaxOpts options
NextOptions ==
  \/ \E b \in DOMAIN BaseOptions, x \in IndexLists(Options, MaxOpts) :
       NewSnakeCharmer(BaseOptions[b] \o OptsOf(Options, x))
  \/ \E x \in IndexLists(Options, MaxOpts) : x # <<>> /\ Set(OptsOf(Options, x))

InitOptions == InitWith({TestStruct})

SpecOptions == InitOptions /\ [][NextOptions]_vars

\* locating and reading the config file, over every list of up to MaxOpts
\* of the options that matter to it
NextResolver ==
  \/ \E b \in 1..2, x \in IndexLists(ResolverOptions, MaxOpts) :
       NewSnakeCharmer(BaseOptions[b] \o OptsOf(ResolverOptions, x))
  \/ \E x \in IndexLists(ResolverOptions, MaxOpts) :
       x # <<>> /\ Set(OptsOf(ResolverOptions, x))
  \/ CallFindConfigFile
  \/ CallMergeInConfigFile

SpecResolver == Init /\ [][NextResolver]_vars

\* locating and reading the config file, by the engine's own calls and by
\* UnmarshalExact
NextConfig ==
  \/ \E b \in 1..2, x \in IndexLists(ResolverOptions, MaxExtraOpts) :
       NewSnakeCharmer(BaseOptions[b] \o OptsOf(ResolverOptions, x))
  \/ \E x \in IndexLists(ResolverOptions, MaxExtraOpts) :
       x # <<>> /\ Set(OptsOf(ResolverOptions, x))
  \/ CallFindConfigFile
  \/ CallMergeInConfigFile
  \/ UnmarshalExact

SpecConfig == Init /\ [][NextConfig]_vars

\* the options that decide which tag the walk and the decoder read
DecodeOptions ==
  << Opt("WithFieldTagName", S_mapstructure),
     Opt("WithFieldTagName", S_snakecharmer),
     Opt("WithDecoderConfigOption", Callback("setTag", S_mapstructure)),
     Opt("WithDecoderConfigOption", Callback("setTag", S_snakecharmer)) >>

\* binding and decoding a struct that is tagged under both tag names, over
\* every list of up to MaxOpts of the options that name a tag
NextDecode ==
  \/ \E b \in 1..2, x \in IndexLists(DecodeOptions, MaxOpts) :
       NewSnakeCharmer(BaseOptions[b] \o OptsOf(DecodeOptions, x))
  \/ \E x \in IndexLists(DecodeOptions, MaxExtraOpts) :
       x # <<>> /\ Set(OptsOf(DecodeOptions, x))
  \/ AddFlags
  \/ UnmarshalExact
  \/ \E k \in DOMAIN flags \cap FlagKeys, n \in FlagValues : ParseFlags(k, n)

InitDecode == InitWith({DualStruct})

SpecDecode == InitDecode /\ [][NextDecode]_vars

\* the options that matter to the walk
BindOptions ==
  << Opt("WithIgnoreUntaggedFields", TRUE),
     Opt("WithIgnoreUntaggedFields", FALSE),
     Opt("WithFieldTagName", S_snakecharmer),
     Opt("WithFlagHelpTagName", S_usage),
     Opt("WithFlagHelpTagName", <<"h", "e", "l", "p">>) >>

\* the walk over structs it can stop at, under every list of up to MaxOpts
\* of the options that matter to it
NextBind ==
  \/ \E b \in 1..2, x \in IndexLists(BindOptions, MaxOpts) :
       NewSnakeCharmer(BaseOptions[b] \o OptsOf(BindOptions, x))
  \/ \E x \in IndexLists(BindOptions, MaxExtraOpts) :
       x # <<>> /\ Set(OptsOf(BindOptions, x))
  \/ AddFlags

InitBind == InitWith(BindStructs)

SpecBind == InitBind /\ [][NextBind]_vars

(* ------------------------------------------------------------------ *)
(* The properties                                                     *)
(* ------------------------------------------------------------------ *)
\* the leaves of a struct that can be reached through tagged fields, each
\* with the first comma-separated segments of the tags on the way to it
RECURSIVE LeavesOf(_, _, _)
LeavesOf(fields, tagName, path) ==
  UNION { IF TagGet(fields[i].tags, tagName) = <<>> THEN {}
          ELSE IF fields[i].kind = "struct"
            THEN LeavesOf(fields[i].sub, tagName,
                          Append(path, FirstSegment(TagGet(fields[i].tags, tagName), ",")))
          ELSE {[path |-> Append(path, FirstSegment(TagGet(fields[i].tags, tagName), ",")),
                 f |-> fields[i]]}
        : i \in 1..Len(fields) }

\* the segments of a path joined by "."
RECURSIVE Dotted(_)
Dotted(path) ==
  IF Len(path) = 1 THEN path[1] ELSE path[1] \o <<".">> \o Dotted(Tail(path))

\* the leaves of the engine's result struct under its field tag name
EngineLeaves == LeavesOf(structs[sch.resultStruct], sch.fieldTagName, <<>>)

\* the store of the engine
Store == vp[sch.viper]

\* the keys bound to both a flag and an environment variable
FlagAndEnvKeys == Store.pflags \cap DOMAIN Store.env

\* the value of the variable key k is bound to: EnvUnset, 0 for the empty
\* string, or the id of its text
EnvOf(k) ==
  IF Store.env[k][1] \in DOMAIN environ THEN environ[Store.env[k][1]] ELSE EnvUnset

Resolved == last.op = "UnmarshalExact" /\ last.err = NoErr

Bound == last.op = "AddFlags" /\ last.err = NoErr

C2_OneFlagOneDefault ==
  /\ Bound =>
       /\ Cardinality({Dotted(l.path) : l \in EngineLeaves}) = Cardinality(EngineLeaves)
       /\ \A l \in EngineLeaves :
            /\ Dotted(l.path) \in DOMAIN flags
            /\ flags[Dotted(l.path)].def = l.f.n
            /\ flags[Dotted(l.path)].kind = l.f.kind
            /\ Dotted(l.path) \in DOMAIN Store.defaults
            /\ Store.defaults[Dotted(l.path)] = Val(l.f.n, "typed")
  /\ ( /\ Resolved
       /\ \A k \in DOMAIN flags : ~flags[k].changed
       /\ \A name \in EnvNames : environ[name] = EnvUnset
       /\ Store.config = EmptyMap )
     => \A k \in Store.pflags :
          /\ k \in DOMAIN last.decoded
          /\ last.decoded[k] = Store.defaults[k].n
          /\ \E l \in EngineLeaves : Dotted(l.path) = k /\ l.f.n = Store.defaults[k].n

\* the string-map leaf of the nested struct is decoded to its default with no overrides
C2_Witness ==
  /\ Resolved
  /\ \A k \in DOMAIN flags : ~flags[k].changed
  /\ \A name \in EnvNames : environ[name] = EnvUnset
  /\ Store.config = EmptyMap
  /\ <<"l", ".", "d">> \in Store.pflags
  /\ <<"u">> \in Store.pflags
  /\ last.decoded[<<"l", ".", "d">>] = 1

\* C3: an AddFlags step adds to the flag set only keys that are the leaf
\* keys on the way from the root to a leaf joined by ".", all of them when it
\* does not panic, and no key starts with a dot.
C3_DottedKeys ==
  [][ last'.op = "AddFlags" =>
        /\ DOMAIN flags' \subseteq DOMAIN flags \cup {Dotted(l.path) : l \in EngineLeaves}
        /\ last'.err = NoErr =>
             DOMAIN flags' = DOMAIN flags \cup {Dotted(l.path) : l \in EngineLeaves}
        /\ \A k \in DOMAIN flags' : Head(k) # "." ]_vars

\* a leaf three structs deep is bound below its two parents
C3_Witness ==
  /\ Bound
  /\ K_lma \in DOMAIN flags
  /\ K_w \in DOMAIN flags
\* the engine's configured path and what is there
ConfigPath == sch.configFilePath

Located == phase = "ready" /\ last.op \in {"findConfigFile", "mergeInConfigFile"}

\* the calls of the last step on the named function
CallsOf(name) == {i \in DOMAIN last.log : last.log[i].call = name}

BaseNameFiles ==
  {JoinPath(Abs(ConfigPath), sch.configFileBaseName \o <<".">> \o SupportedExts[j])
     : j \in DOMAIN SupportedExts} \cap DOMAIN FS

\* C5: after findConfigFile on an existing directory the store was told the
\* directory as a search path and the engine's base name, and neither an
\* exact file nor a format; and the file mergeInConfigFile then merges is a
\* file of that base name in that directory, parsed by its own extension.
C5_Directory ==
  (Located /\ ConfigPath # <<>> /\ Stat(ConfigPath) = "dir") =>
    /\ \E i \in CallsOf("AddConfigPath") : last.log[i].arg = ConfigPath
    /\ \E i \in CallsOf("SetConfigName") : last.log[i].arg = sch.configFileBaseName
    /\ CallsOf("SetConfigFile") = {}
    /\ CallsOf("SetConfigType") = {}
    /\ InSeq(Abs(ConfigPath), Store.configPaths)
    /\ Store.configName = sch.configFileBaseName
    /\ (last.op = "mergeInConfigFile" /\ BaseNameFiles # {}) =>
         /\ Store.configFile \in BaseNameFiles
         /\ GetConfigType(Store) = FileExt(Store.configFile)
         /\ last.err = NoErr
         /\ Store.config = FS[Store.configFile].content.data

\* the errors of the strict decode
DecodeErrors ==
  {"while unmarshalling config, flags, and env vars: cannot decode value",
   "while unmarshalling config, flags, and env vars: has invalid keys"}

\* C6: WithConfigFilePath stores a path of only white space as the empty
\* path; and UnmarshalExact with the empty path calls nothing but the strict
\* decode (no stat, no store configuration, no read) and fails, if at all,
\* with the error of the decode.
C6_EmptyPathSkipsFile ==
  /\ ( /\ last.op \in {"NewSnakeCharmer", "Set"}
       /\ last.err = NoErr
       /\ last.opts # <<>>
       /\ last.opts[Len(last.opts)].op = "WithConfigFilePath" )
     => /\ (\A j \in DOMAIN last.opts[Len(last.opts)].x :
               last.opts[Len(last.opts)].x[j] = " ") => ConfigPath = <<>>
        /\ ConfigPath = <<>> \/ (Head(ConfigPath) # " " /\ ConfigPath[Len(ConfigPath)] # " ")
  /\ (phase = "ready" /\ last.op = "UnmarshalExact" /\ ConfigPath = <<>>)
     => /\ last.log = <<Call("UnmarshalExact", S_empty)>>
        /\ last.err \in {NoErr} \cup DecodeErrors

\* a resolve with the empty path after an earlier resolve with a config file:
\* the path was emptied by a WithConfigFilePath of white space
C6_Witness ==
  /\ Resolved
  /\ ConfigPath = <<>>
  /\ Store.config # EmptyMap
  /\ last.log = <<Call("UnmarshalExact", S_empty)>>

\* the errors for a path that does not exist, and for a failing stat
NotExistErrors ==
  {"no such file or directory", "while finding config: no such file or directory"}

IndeterminateErrors ==
  {"schrodinger: may or may not exist",
   "while finding config: schrodinger: may or may not exist"}

\* C7: a findConfigFile or mergeInConfigFile step with an empty path, a
\* path that does not exist or a path whose stat fails returns an error,
\* that of a missing path different from that of a failing stat, leaves the
\* stores as they were, and calls nothing but stat.
C7_PathErrors ==
  [][ ( /\ last'.op \in {"findConfigFile", "mergeInConfigFile"}
        /\ (ConfigPath = <<>> \/ Stat(ConfigPath) \in {"notexist", "staterr"}) )
      => /\ last'.err # NoErr
         /\ phase' = "ready"
         /\ ~last'.found
         /\ vp' = vp
         /\ \A i \in DOMAIN last'.log : last'.log[i].call = "Stat"
         /\ ConfigPath = <<>> => last'.log = <<>>
         /\ (ConfigPath # <<>> /\ Stat(ConfigPath) = "notexist")
              => last'.err \in NotExistErrors
         /\ (ConfigPath # <<>> /\ Stat(ConfigPath) = "staterr")
              => last'.err \in IndeterminateErrors
         /\ NotExistErrors \cap IndeterminateErrors = {} ]_vars

\* mergeInConfigFile fails on a path whose stat fails, after an earlier
\* call configured the store
C7_Witness ==
  /\ phase = "ready"
  /\ last.op = "mergeInConfigFile"
  /\ Stat(ConfigPath) = "staterr"
  /\ last.err \in IndeterminateErrors
  /\ Store.configFile # <<>>

\* the keys that have a value in the store
SettingsKeys == AllKeys(Store)

\* the keys of the leaves the decoder can reach
FieldKeys == {Dotted(l.path) : l \in EngineLeaves}

\* a string-map leaf whose value would come from an environment variable
\* (a text, which does not convert to a map)
MapFromEnv ==
  \E l \in EngineLeaves :
    /\ l.f.kind = "map"
    /\ Dotted(l.path) \in FlagAndEnvKeys
    /\ ~flags[Dotted(l.path)].changed
    /\ EnvOf(Dotted(l.path)) > 0

Decoded ==
  phase = "ready" /\ last.op = "UnmarshalExact" /\ CallsOf("UnmarshalExact") # {}

\* C8: when UnmarshalExact reaches the strict decode and the store holds a
\* key that is no leaf of the result struct, it returns an error; when every
\* key of the store is a leaf (and converts), it returns nil although
\* leaves are left without a value.
C8_UnknownKeyRejected ==
  Decoded =>
    /\ ~(SettingsKeys \subseteq FieldKeys) => last.err \in DecodeErrors
    /\ (SettingsKeys \subseteq FieldKeys /\ ~MapFromEnv) => last.err = NoErr

\* the config file supplied a key that is no field, and the decode failed
C8_Witness ==
  /\ Decoded
  /\ K_zz \in DOMAIN Store.config
  /\ K_w \in FieldKeys
  /\ last.err \in DecodeErrors

\* whether the walk meets a field without the tag (below tagged structs)
RECURSIVE HasUntagged(_, _)
HasUntagged(fields, tagName) ==
  \E i \in DOMAIN fields :
    \/ TagGet(fields[i].tags, tagName) = <<>>
    \/ fields[i].kind = "struct" /\ HasUntagged(fields[i].sub, tagName)

\* the names of the fields without the tag, and the keys below them
RECURSIVE UntaggedNames(_, _)
UntaggedNames(fields, tagName) ==
  UNION { IF TagGet(fields[i].tags, tagName) = <<>>
            THEN {<<fields[i].name>>} \cup
                 {Dotted(l.path) : l \in LeavesOf(fields[i].sub, tagName, <<>>)} \cup
                 {<<fields[i].name>> \o <<".">> \o Dotted(l.path)
                    : l \in LeavesOf(fields[i].sub, tagName, <<>>)}
          ELSE IF fields[i].kind = "struct" THEN UntaggedNames(fields[i].sub, tagName)
          ELSE {}
        : i \in DOMAIN fields }

EngineUntagged == UntaggedNames(structs[sch.resultStruct], sch.fieldTagName)

\* C9: an AddFlags step of an engine that ignores untagged fields adds no
\* flag, default, flag binding or env binding but those of the tagged
\* leaves, so nothing for an untagged field or below it; an AddFlags step of
\* an engine that does not ignore them panics when the struct has an untagged
\* field, with the untagged-field error unless a flag of an earlier field
\* was already defined. And no key decoded by an UnmarshalExact step is the
\* name of an untagged field or a key below one.
C9_UntaggedFields ==
  [][ /\ last'.op = "UnmarshalExact" =>
           DOMAIN last'.decoded \cap (EngineUntagged \ FieldKeys) = {}
      /\ last'.op = "AddFlags" =>
        /\ sch.ignoreUntaggedFields =>
             /\ (DOMAIN flags' \ DOMAIN flags) \subseteq FieldKeys
             /\ (DOMAIN vp'[sch.viper].defaults \ DOMAIN Store.defaults) \subseteq FieldKeys
             /\ (vp'[sch.viper].pflags \ Store.pflags) \subseteq FieldKeys
             /\ (DOMAIN vp'[sch.viper].env \ DOMAIN Store.env) \subseteq FieldKeys
             /\ last'.err # "got untagged field"
        /\ (DOMAIN flags' \cup DOMAIN vp'[sch.viper].defaults \cup vp'[sch.viper].pflags
              \cup DOMAIN vp'[sch.viper].env) \cap (EngineUntagged \ FieldKeys) = {}
        /\ (~sch.ignoreUntaggedFields /\ HasUntagged(structs[sch.resultStruct], sch.fieldTagName))
             => /\ phase' = "panicked"
                /\ last'.err \in {"got untagged field", "flag redefined"}
                /\ DOMAIN flags \cap FieldKeys = {} => last'.err = "got untagged field" ]_vars

\* AddFlags skipped the untagged fields of the test struct, one of them a
\* struct with a tagged leaf, and bound the leaves around them
C9_Witness ==
  /\ Bound
  /\ sch.ignoreUntaggedFields
  /\ <<"x">> \in EngineUntagged
  /\ <<"x">> \notin DOMAIN flags
  /\ K_lma \in DOMAIN flags

\* whether an option returns an error, whatever the engine it is applied to
OptionFails(o) == ApplyOption(o, NewEngine).err # NoErr

\* the options of the last step that were applied before option i
Before(i) == SubSeq(last.opts, 1, i - 1)

\* C10: NewSnakeCharmer returns; its error is non-nil exactly when an option
\* fails, or no option set a result struct, or none set a cobra command (or
\* the last one set nil); it is the error of the first failing option, and
\* the engine is as the options before that one left it; without a store
\* among the options the engine gets a new one; and the flag set and the
\* stores are as they were.
C10_ConstructionErrors ==
  last.op = "NewSnakeCharmer" =>
    /\ phase \in {"ready", "failed"}
    /\ (phase = "failed") <=> (last.err # NoErr)
    /\ (last.err # NoErr) <=>
         \/ \E i \in DOMAIN last.opts : OptionFails(last.opts[i])
         \/ ~\E i \in DOMAIN last.opts : last.opts[i].op = "WithResultStruct"
         \/ ~\E i \in DOMAIN last.opts :
               /\ last.opts[i].op = "WithCobraCommand"
               /\ last.opts[i].x # Nil
               /\ \A j \in DOMAIN last.opts :
                    j > i => last.opts[j].op # "WithCobraCommand"
    /\ \A i \in DOMAIN last.opts :
         (OptionFails(last.opts[i]) /\ \A j \in 1..(i - 1) : ~OptionFails(last.opts[j]))
           => /\ last.err = ApplyOption(last.opts[i], NewEngine).err
              /\ sch = ApplyOptions(Before(i), NewEngine, 0).e
    /\ last.err = NoErr => sch.viper # Nil
    /\ flags = EmptyMap
    /\ \A r \in ViperRefs : vp[r] = NewViper

\* a result struct argument that is not a non-nil pointer to an ordinary struct
BadResultStruct(rs) == ~(rs.kind = "ptr" /\ ~rs.isnil /\ rs.elem = "struct")

\* option i of the step being taken is reached: no option before it fails
Reached(i) == \A j \in 1..(i - 1) : ~OptionFails(last'.opts[j])

\* the result struct reference the engine holds when option i of the step
\* being taken is applied
RefBefore(i) ==
  LET Good == {j \in 1..(i - 1) : last'.opts[j].op = "WithResultStruct"}
      Max(S) == CHOOSE j \in S : \A k \in S : k <= j
  IN IF Good = {} THEN sch.resultStruct ELSE last'.opts[Max(Good)].x.ref

\* C11: in NewSnakeCharmer and in Set, a WithResultStruct option whose
\* argument is not a non-nil pointer to an ordinary struct makes the call
\* return an error, without a panic, and the engine keeps the result struct
\* it held; with a non-nil pointer to a struct the option succeeds and the
\* engine holds that pointer once the option is applied.
C11_ResultStructOption ==
  [][ last'.op \in {"NewSnakeCharmer", "Set"} =>
        \A i \in DOMAIN last'.opts :
          (last'.opts[i].op = "WithResultStruct" /\ Reached(i)) =>
            IF BadResultStruct(last'.opts[i].x)
            THEN /\ phase' # "panicked"
                 /\ last'.err # NoErr
                 /\ sch'.resultStruct = RefBefore(i)
            ELSE /\ ~OptionFails(last'.opts[i])
                 /\ (\A j \in DOMAIN last'.opts :
                       j > i => /\ ~OptionFails(last'.opts[j])
                                /\ last'.opts[j].op # "WithResultStruct")
                      => sch'.resultStruct = last'.opts[i].x.ref ]_vars

\* C11 without the untyped nil: the same, for the arguments reflect.ValueOf
\* gives a valid Value for
C11_TypedArguments ==
  [][ last'.op \in {"NewSnakeCharmer", "Set"} =>
        \A i \in DOMAIN last'.opts :
          (last'.opts[i].op = "WithResultStruct" /\ Reached(i)
             /\ BadResultStruct(last'.opts[i].x) /\ last'.opts[i].x.kind # "invalid") =>
            /\ phase' # "panicked"
            /\ last'.err # NoErr
            /\ sch'.resultStruct = RefBefore(i) ]_vars

\* Set was given an untyped nil as the result struct
C11_Witness ==
  /\ last.op = "Set"
  /\ \E i \in DOMAIN last.opts :
       /\ last.opts[i].op = "WithResultStruct"
       /\ last.opts[i].x.kind = "invalid"
  /\ phase = "panicked"

\* the string settings of the engine are trimmed and not empty
Trimmed(s) == s # <<>> /\ TrimSpace(s) = s

\* C12: in every state from construction on, after failing and succeeding
\* calls alike, the field tag name, the env tag name, the help tag name and
\* the config file base name are non-empty with no surrounding white space,
\* and the config file type is one of the supported extensions.
C12_SettingsWellFormed ==
  /\ Trimmed(sch.fieldTagName)
  /\ Trimmed(sch.envTagName)
  /\ Trimmed(sch.flagHelpTagName)
  /\ Trimmed(sch.configFileBaseName)
  /\ InSeq(sch.configFileType, SupportedExts)

\* a Set that failed after it had changed the tag name and the file type
\* from padded arguments
C12_Witness ==
  /\ last.op = "Set"
  /\ last.err # NoErr
  /\ \E i \in DOMAIN last.opts : last.opts[i].op \in {"WithFieldTagName", "WithConfigFileType"}
  /\ \/ sch.configFileType = S_toml
     \/ sch.fieldTagName = S_snakecharmer /\ last.opts[1].op = "WithFieldTagName"

\* the WithResultStruct options among the options of the step being taken
ResultStructOptions == {i \in DOMAIN last'.opts : last'.opts[i].op = "WithResultStruct"}

\* C13 as the spec states it: the result struct reference of a constructed
\* engine is not nil and no call changes it.
C13_ResultStructSetOnce ==
  [][ /\ phase' = "ready" => sch'.resultStruct # Nil
      /\ phase = "ready" => sch'.resultStruct = sch.resultStruct ]_vars

\* C13: the result struct reference of a constructed engine is never nil;
\* AddFlags and UnmarshalExact leave it alone; NewSnakeCharmer and Set leave
\* it at the pointer of the last WithResultStruct among their options, and
\* a Set without that option leaves it alone.
C13_ResultStructKept ==
  [][ /\ phase' = "ready" => sch'.resultStruct # Nil
      /\ (phase = "ready" /\ sch'.resultStruct # sch.resultStruct) =>
           last'.op = "Set" /\ ResultStructOptions # {}
      /\ (last'.op \in {"NewSnakeCharmer", "Set"} /\ last'.err = NoErr) =>
           \A i \in ResultStructOptions :
             (\A j \in ResultStructOptions : j <= i) =>
               sch'.resultStruct = last'.opts[i].x.ref ]_vars

\* the engine was bound with one result struct and Set gave it another
C13_Witness ==
  /\ last.op = "Set"
  /\ last.err = NoErr
  /\ bindSnap.bound
  /\ bindSnap.e.resultStruct = "r1"
  /\ sch.resultStruct = "r2"

\* C14: an UnmarshalExact that directly follows an UnmarshalExact, with
\* nothing changed in between, returns the same error, decodes the same
\* values for the same keys and leaves the result struct as the first call
\* left it.
C14_ResolveTwice ==
  [][ (last.op = "UnmarshalExact" /\ last'.op = "UnmarshalExact" /\ phase' = "ready") =>
        /\ last'.err = last.err
        /\ last'.decoded = last.decoded
        /\ structs' = structs ]_vars

\* two calls in a row that merged a config file and decoded an overridden key
C14_Witness ==
  /\ last.op = "UnmarshalExact"
  /\ last.err = NoErr
  /\ cnt.resolve = 2
  /\ cnt.set = 0
  /\ cnt.flag + cnt.env > 0
  /\ \E i \in DOMAIN last.log : last.log[i].call = "ReadInConfig"
  /\ K_w \in DOMAIN last.decoded
  /\ last.decoded[K_w] \in {3, 4}

\* the environments a process can run in
Environments == [EnvNames -> EnvValues \cup {EnvUnset}]

\* the environment names a key is bound to in a store
EnvBindings(v, k) == IF k \in DOMAIN v.env THEN v.env[k] ELSE <<>>

\* C15: a successful AddFlags adds, for every leaf it binds, the variable
\* named by the leaf's env tag to the key's environment bindings when the
\* tag is not empty and nothing when it is empty, and it binds no other
\* key; and after a successful UnmarshalExact the value of a key without
\* an environment binding is the same in every environment.
C15_EnvBindings ==
  [][ /\ (last'.op = "AddFlags" /\ last'.err = NoErr /\ sch.viper # Nil) =>
           /\ \A l \in EngineLeaves :
                EnvBindings(vp'[sch.viper], Dotted(l.path)) =
                  EnvBindings(vp[sch.viper], Dotted(l.path)) \o
                    (IF TagGet(l.f.tags, sch.envTagName) # <<>>
                     THEN <<TagGet(l.f.tags, sch.envTagName)>> ELSE <<>>)
           /\ \A k \in DOMAIN vp'[sch.viper].env :
                \/ k \in {Dotted(l.path) : l \in EngineLeaves}
                \/ EnvBindings(vp'[sch.viper], k) = EnvBindings(vp[sch.viper], k)
      /\ (last'.op = "UnmarshalExact" /\ last'.err = NoErr) =>
           \A k \in AllKeys(vp'[sch'.viper]) \ DOMAIN vp'[sch'.viper].env :
             /\ \A env2 \in Environments :
                  Find(vp'[sch'.viper], flags', env2, k) = Find(vp'[sch'.viper], flags', environ', k)
             /\ k \in DOMAIN last'.decoded =>
                  \A env2 \in Environments :
                    last'.decoded[k] = Find(vp'[sch'.viper], flags', env2, k).n ]_vars

\* a struct with leaves with and without an env tag was bound, a variable
\* was set, and UnmarshalExact decoded a leaf that has no env tag
C15_Witness ==
  /\ Resolved
  /\ \E n \in EnvNames : environ[n] > 0
  /\ DOMAIN Store.env # {}
  /\ \E k \in DOMAIN last.decoded : k \notin DOMAIN Store.env

\* the tag name the strict decode of the step being taken read the field
\* keys from: the decoder config after the engine's callbacks
DecoderTagName == DecoderConfig(sch', sch'.decoderConfigOptions).TagName

\* the tag override UnmarshalExact adds
TagOverride == Callback("engineTag", S_empty)

\* C16: whenever UnmarshalExact decodes on an engine that AddFlags has
\* bound, the decoder reads the field keys from the tag name AddFlags read
\* them from; with a field tag name other than "mapstructure" the call adds
\* the override after the caller's callbacks, with "mapstructure" it adds
\* nothing.
C16_DecodeTagIsBindTag ==
  [][ (last'.op = "UnmarshalExact" /\ phase' = "ready" /\ bindSnap.bound) =>
        /\ DecoderTagName = bindSnap.e.fieldTagName
        /\ sch'.decoderConfigOptions =
             IF sch.fieldTagName # S_mapstructure
             THEN Append(sch.decoderConfigOptions, TagOverride)
             ELSE sch.decoderConfigOptions ]_vars

\* the callbacks of an engine that set the decoder's tag name: the caller's
\* and the overrides earlier calls have added
TagCallbacks(e) ==
  {i \in DOMAIN e.decoderConfigOptions : e.decoderConfigOptions[i].cb \in {"setTag", "engineTag"}}

LastTagCallback(e) ==
  e.decoderConfigOptions[CHOOSE i \in TagCallbacks(e) : \A j \in TagCallbacks(e) : j <= i]

\* what holds of the decoder's tag name: it is the engine's field tag name
\* at the time of the call, unless that is "mapstructure" and the last
\* callback that names a tag is one of the caller's: then it is the tag of
\* that callback; and the callbacks grow as C16 says
C16_DecodeTagIsCurrentTag ==
  [][ (last'.op = "UnmarshalExact" /\ phase' = "ready") =>
        /\ DecoderTagName =
             IF sch.fieldTagName # S_mapstructure \/ TagCallbacks(sch) = {}
               THEN sch.fieldTagName
             ELSE IF LastTagCallback(sch).cb = "engineTag" THEN sch.fieldTagName
             ELSE LastTagCallback(sch).x
        /\ sch'.decoderConfigOptions =
             IF sch.fieldTagName # S_mapstructure
             THEN Append(sch.decoderConfigOptions, TagOverride)
             ELSE sch.decoderConfigOptions ]_vars

\* the struct was bound under "mapstructure" and decoded under "snakecharmer",
\* and the decode failed on the key that has no field under that name
C16_Witness ==
  /\ last.op = "UnmarshalExact"
  /\ bindSnap.bound
  /\ bindSnap.e.fieldTagName = S_mapstructure
  /\ DecoderConfig(sch, sch.decoderConfigOptions).TagName = S_snakecharmer
  /\ last.err # NoErr

\* the options named op among the options of the step being taken, and the
\* argument of the last of them
Named(op) == {i \in DOMAIN last'.opts : last'.opts[i].op = op}

LastArg(op) == last'.opts[CHOOSE i \in Named(op) : \A j \in Named(op) : j <= i].x

\* the callbacks the options of the step being taken add, in their order
RECURSIVE AddedCallbacks(_)
AddedCallbacks(opts) ==
  IF opts = <<>> THEN <<>>
  ELSE (IF Head(opts).op = "WithDecoderConfigOption" THEN <<Head(opts).x>>
        ELSE IF Head(opts).op = "WithIgnoreUntaggedFields"
          THEN <<Callback("ignore", Head(opts).x)>>
        ELSE <<>>) \o AddedCallbacks(Tail(opts))

\* C17: after a Set whose options all succeed, every string getter returns
\* the trimmed argument of the last option for its setting, the result
\* struct getter the last pointer given, the ignore-untagged getter the
\* last value given, the callbacks are the earlier ones followed by one per
\* WithDecoderConfigOption and WithIgnoreUntaggedFields in their order,
\* and a setting no option names is as it was.
C17_SetThenGet ==
  [][ (last'.op = "Set" /\ last'.err = NoErr) =>
        /\ FieldTagName(sch') =
             IF Named("WithFieldTagName") = {} THEN FieldTagName(sch)
             ELSE TrimSpace(LastArg("WithFieldTagName"))
        /\ EnvTagName(sch') =
             IF Named("WithEnvTagName") = {} THEN EnvTagName(sch)
             ELSE TrimSpace(LastArg("WithEnvTagName"))
        /\ FlagHelpTagName(sch') =
             IF Named("WithFlagHelpTagName") = {} THEN FlagHelpTagName(sch)
             ELSE TrimSpace(LastArg("WithFlagHelpTagName"))
        /\ ConfigFileType(sch') =
             IF Named("WithConfigFileType") = {} THEN ConfigFileType(sch)
             ELSE TrimSpace(LastArg("WithConfigFileType"))
        /\ ConfigFilePath(sch') =
             IF Named("WithConfigFilePath") = {} THEN ConfigFilePath(sch)
             ELSE TrimSpace(LastArg("WithConfigFilePath"))
        /\ ConfigFileBaseName(sch') =
             IF Named("WithConfigFileBaseName") = {} THEN ConfigFileBaseName(sch)
             ELSE TrimSpace(LastArg("WithConfigFileBaseName"))
        /\ ResultStruct(sch') =
             IF Named("WithResultStruct") = {} THEN ResultStruct(sch)
             ELSE LastArg("WithResultStruct").ref
        /\ IgnoreUntaggedFields(sch') =
             IF Named("WithIgnoreUntaggedFields") = {} THEN IgnoreUntaggedFields(sch)
             ELSE LastArg("WithIgnoreUntaggedFields")
        /\ DecoderConfigOptions(sch') =
             DecoderConfigOptions(sch) \o AddedCallbacks(last'.opts)
        /\ sch'.viper = IF Named("WithViper") = {} THEN sch.viper ELSE LastArg("WithViper")
        /\ sch'.cmd = IF Named("WithCobraCommand") = {} THEN sch.cmd
                      ELSE LastArg("WithCobraCommand") ]_vars

\* a Set that gave a padded name and turned ignore-untagged on: the getter
\* returns the name trimmed and the callbacks have grown
C17_Witness ==
  /\ last.op = "Set"
  /\ last.err = NoErr
  /\ Len(last.opts) = 2
  /\ last.opts[1].op = "WithIgnoreUntaggedFields"
  /\ last.opts[2].op = "WithConfigFileBaseName"
  /\ ConfigFileBaseName(sch) = S_conf
  /\ IgnoreUntaggedFields(sch)
  /\ Len(DecoderConfigOptions(sch)) = 1

\* the fields the walk can come to: those of the struct and, below a tagged
\* struct field that is not a nil pointer, those of that struct
RECURSIVE FieldsOf(_, _)
FieldsOf(fields, tagName) ==
  UNION { {fields[i]} \cup
            (IF /\ TagGet(fields[i].tags, tagName) # <<>>
                /\ fields[i].kind = "struct"
                /\ fields[i].ptr # "nil"
             THEN FieldsOf(fields[i].sub, tagName) ELSE {})
        : i \in 1..Len(fields) }

EngineFields == FieldsOf(structs[sch.resultStruct], sch.fieldTagName)

NilFields == {f \in EngineFields : f.ptr = "nil"}

\* C18: AddFlags stops at a nil pointer or nil interface field only if the
\* field would be bound: with ignore-untagged-fields on, a struct whose nil
\* fields all lack the field-key tag is walked without the nil-field panic.
C18_NilOnlyWhenBound ==
  (last.op = "AddFlags" /\ sch.ignoreUntaggedFields) =>
    (last.err = "got nil for field" =>
       \E f \in NilFields : TagGet(f.tags, sch.fieldTagName) # <<>>)

\* what holds of nil fields: AddFlags panics when the walk can come to one,
\* tagged or not
C18_NilFieldIsFatal ==
  (last.op = "AddFlags" /\ NilFields # {}) => last.err # NoErr

\* AddFlags with ignore-untagged-fields on stopped at an untagged nil field
C18_Witness ==
  /\ last.op = "AddFlags"
  /\ sch.ignoreUntaggedFields
  /\ NilFields # {}
  /\ \A f \in NilFields : TagGet(f.tags, sch.fieldTagName) = <<>>
  /\ last.err = "got nil for field"

\* the keys of the tagged struct fields of a struct
RECURSIVE StructKeysOf(_, _, _)
StructKeysOf(fields, tagName, prefix) ==
  UNION { IF TagGet(fields[i].tags, tagName) # <<>> /\ fields[i].kind = "struct"
          THEN {FieldKey(TagGet(fields[i].tags, tagName), prefix)} \cup
               StructKeysOf(fields[i].sub, tagName,
                            FieldKey(TagGet(fields[i].tags, tagName), prefix))
          ELSE {}
        : i \in 1..Len(fields) }

\* what is registered for a key: its flag, its default and its bindings
Registered(k, fl, v) ==
  <<k \in DOMAIN fl, k \in DOMAIN v.defaults, k \in v.pflags, EnvBindings(v, k)>>

\* the step being taken registers nothing for a key
Untouched(k) == Registered(k, flags', vp'[sch.viper]) = Registered(k, flags, vp[sch.viper])

\* the leaves of the engine's result struct that have no help tag
HelplessLeaves ==
  {l \in EngineLeaves : TagGet(l.f.tags, sch.flagHelpTagName) = <<>>}

\* C19: after AddFlags, however it ended, every registered flag has a help
\* text; AddFlags registers no flag, default or binding for the key of a
\* struct field; a tagged leaf without a help tag makes AddFlags fail with
\* nothing registered for it; and the missing-help failure is raised for
\* such a leaf only, never for a struct field.
C19_HelpRequired ==
  [][ last'.op = "AddFlags" =>
        /\ \A k \in DOMAIN flags' : flags'[k].help # <<>>
        /\ \A k \in StructKeysOf(structs[sch.resultStruct], sch.fieldTagName, <<>>) :
             Untouched(k)
        /\ \A l \in HelplessLeaves : last'.err # NoErr /\ Untouched(Dotted(l.path))
        /\ last'.err = "help tag is not specified" => HelplessLeaves # {} ]_vars

\* the walk went through a struct field without a help tag, bound the leaf
\* below it and stopped at the next leaf without a help tag
C19_Witness ==
  /\ last.op = "AddFlags"
  /\ last.err = "help tag is not specified"
  /\ <<"l", ".", "v">> \in DOMAIN flags
  /\ <<"l">> \notin DOMAIN flags
  /\ <<"b">> \notin DOMAIN flags
  /\ <<"j">> \notin DOMAIN flags

\* C20: a string slice leaf or a string map leaf whose default is nil or
\* has no elements makes AddFlags fail, and no flag and no default is
\* registered for its key.
C20_NilOrEmptyRejected ==
  last.op = "AddFlags" =>
    \A l \in EngineLeaves :
      (l.f.kind \in {"slice", "map"} /\ l.f.ptr # "nil" /\ (l.f.isnil \/ l.f.n = 0)) =>
        /\ last.err # NoErr
        /\ Dotted(l.path) \notin DOMAIN flags
        /\ Dotted(l.path) \notin DOMAIN Store.defaults

\* what holds: the same for a nil or empty slice and for a nil map
C20_NilRejected ==
  last.op = "AddFlags" =>
    \A l \in EngineLeaves :
      (/\ l.f.ptr # "nil"
       /\ \/ l.f.kind = "slice" /\ (l.f.isnil \/ l.f.n = 0)
          \/ l.f.kind = "map" /\ l.f.isnil) =>
        /\ last.err # NoErr
        /\ Dotted(l.path) \notin DOMAIN flags
        /\ Dotted(l.path) \notin DOMAIN Store.defaults

\* AddFlags bound a map leaf whose default is the empty map
C20_Witness ==
  /\ last.op = "AddFlags"
  /\ last.err = NoErr
  /\ <<"d">> \in DOMAIN flags
  /\ flags[<<"d">>].kind = "map"
  /\ flags[<<"d">>].def = 0
  /\ <<"d">> \in DOMAIN Store.defaults

\* the errors of locating the config file as UnmarshalExact returns them
FindErrors ==
  {"while finding config: no such file or directory",
   "while finding config: schrodinger: may or may not exist"}

\* the errors of reading the config file as UnmarshalExact returns them
ReadErrors ==
  {"while reading config: config file not found",
   "while reading config: read error",
   "while reading config: parse error",
   "while reading config: unsupported config type"}

\* C21: an UnmarshalExact with a non-empty path whose path does not exist or
\* cannot be stat'ed, or whose file is not found, read or parsed, returns
\* that error; the strict decode is not called, nothing is decoded and the
\* result structs are as before the call; and no call reads the config
\* file more than once.
C21_ConfigErrorsSurface ==
  [][ (last'.op = "UnmarshalExact" /\ phase' = "ready") =>
        /\ (ConfigPath # <<>> /\ Stat(ConfigPath) \in {"notexist", "staterr"}) =>
             last'.err \in FindErrors
        /\ (ConfigPath # <<>> /\ Stat(ConfigPath) = "dir" /\ GetConfigFile(vp'[sch.viper]) = <<>>) =>
             last'.err \in ReadErrors
        /\ last'.err \in FindErrors \cup ReadErrors =>
             /\ ConfigPath # <<>>
             /\ \A i \in DOMAIN last'.log : last'.log[i].call # "UnmarshalExact"
             /\ last'.decoded = EmptyMap
             /\ structs' = structs
        /\ last'.err \in FindErrors =>
             \A i \in DOMAIN last'.log : last'.log[i].call # "ReadInConfig"
        /\ Cardinality({i \in DOMAIN last'.log : last'.log[i].call = "ReadInConfig"}) <= 1 ]_vars

\* the file was located and did not parse: UnmarshalExact returned the
\* error after one read, without a decode
C21_Witness ==
  /\ last.op = "UnmarshalExact"
  /\ last.err = "while reading config: parse error"
  /\ Cardinality({i \in DOMAIN last.log : last.log[i].call = "ReadInConfig"}) = 1
  /\ bindSnap.bound

\* whether an option returns an error, by the rule its source states
Rejected(o) ==
  CASE o.op = "WithResultStruct" -> BadResultStruct(o.x) /\ o.x.kind # "invalid"
    [] o.op \in {"WithFieldTagName", "WithEnvTagName", "WithFlagHelpTagName",
                 "WithConfigFileBaseName"} -> TrimSpace(o.x) = <<>>
    [] o.op = "WithConfigFileType" -> ~InSeq(TrimSpace(o.x), SupportedExts)
    [] OTHER -> FALSE

\* the error an option returns when it is rejected
RejectionOf(o) ==
  CASE o.op = "WithResultStruct" -> "result struct must be a pointer to a struct"
    [] o.op = "WithFieldTagName" -> "invalid field tag name"
    [] o.op = "WithEnvTagName" -> "invalid envTagName"
    [] o.op = "WithFlagHelpTagName" -> "invalid flag help tag name"
    [] o.op = "WithConfigFileBaseName" -> "invalid config file base name"
    [] o.op = "WithConfigFileType" -> "invalid config file type"
    [] OTHER -> NoErr

\* the options named op in a list, and the argument of the last of them
NamedIn(opts, op) == {i \in DOMAIN opts : opts[i].op = op}

LastArgIn(opts, op) ==
  opts[CHOOSE i \in NamedIn(opts, op) : \A j \in NamedIn(opts, op) : j <= i].x

\* the engine e after a list of options none of which is rejected, field by field
AfterAll(e, opts) ==
  [resultStruct |-> IF NamedIn(opts, "WithResultStruct") = {} THEN e.resultStruct
                    ELSE LastArgIn(opts, "WithResultStruct").ref,
   fieldTagName |-> IF NamedIn(opts, "WithFieldTagName") = {} THEN e.fieldTagName
                    ELSE TrimSpace(LastArgIn(opts, "WithFieldTagName")),
   envTagName |-> IF NamedIn(opts, "WithEnvTagName") = {} THEN e.envTagName
                  ELSE TrimSpace(LastArgIn(opts, "WithEnvTagName")),
   flagHelpTagName |-> IF NamedIn(opts, "WithFlagHelpTagName") = {} THEN e.flagHelpTagName
                       ELSE TrimSpace(LastArgIn(opts, "WithFlagHelpTagName")),
   configFileType |-> IF NamedIn(opts, "WithConfigFileType") = {} THEN e.configFileType
                      ELSE TrimSpace(LastArgIn(opts, "WithConfigFileType")),
   configFilePath |-> IF NamedIn(opts, "WithConfigFilePath") = {} THEN e.configFilePath
                      ELSE TrimSpace(LastArgIn(opts, "WithConfigFilePath")),
   configFileBaseName |-> IF NamedIn(opts, "WithConfigFileBaseName") = {}
                          THEN e.configFileBaseName
                          ELSE TrimSpace(LastArgIn(opts, "WithConfigFileBaseName")),
   viper |-> IF NamedIn(opts, "WithViper") = {} THEN e.viper
             ELSE LastArgIn(opts, "WithViper"),
   cmd |-> IF NamedIn(opts, "WithCobraCommand") = {} THEN e.cmd
           ELSE LastArgIn(opts, "WithCobraCommand"),
   decoderConfigOptions |-> e.decoderConfigOptions \o AddedCallbacks(opts),
   ignoreUntaggedFields |-> IF NamedIn(opts, "WithIgnoreUntaggedFields") = {}
                            THEN e.ignoreUntaggedFields
                            ELSE LastArgIn(opts, "WithIgnoreUntaggedFields")]

\* C22: when an option of Set, or of NewSnakeCharmer, is rejected, the call
\* returns the error of the first rejected option, and the engine is what
\* the options before that one made of it: the rejected option and those
\* after it changed nothing, those before it stay applied.
C22_StopsAtFirstFailure ==
  [][ (last'.op \in {"NewSnakeCharmer", "Set"} /\ phase' # "panicked") =>
        \A i \in DOMAIN last'.opts :
          (Rejected(last'.opts[i]) /\ \A j \in 1..(i - 1) : ~Rejected(last'.opts[j])) =>
            /\ last'.err = RejectionOf(last'.opts[i])
            /\ sch' = AfterAll(sch, SubSeq(last'.opts, 1, i - 1)) ]_vars

\* a Set whose first option was applied and whose second was rejected
C22_Witness ==
  /\ last.op = "Set"
  /\ Len(last.opts) = 2
  /\ last.opts[1].op = "WithConfigFileType"
  /\ last.opts[2].op = "WithFieldTagName"
  /\ last.err = "invalid field tag name"
  /\ sch.configFileType = S_json

\* the reads of the config file among the calls of the last step
Reads == CallsOf("ReadInConfig")

\* C23: findConfigFile returns found with no error or not found with an
\* error; mergeInConfigFile returns nil only after it has called the
\* store's read and the read succeeded; and UnmarshalExact on an existing
\* directory that holds no file of the configured base name returns an
\* error.
C23_NothingSwallowed ==
  /\ (phase = "ready" /\ last.op = "findConfigFile") =>
       (last.found <=> last.err = NoErr)
  /\ (phase = "ready" /\ last.op = "mergeInConfigFile" /\ last.err = NoErr) =>
       /\ Reads # {}
       /\ Store.configFile # <<>>
       /\ Stat(Store.configFile) = "file"
       /\ Store.config = FS[Abs(Store.configFile)].content.data
  /\ (phase = "ready" /\ last.op = "UnmarshalExact" /\ ConfigPath # <<>>
        /\ Stat(ConfigPath) = "dir" /\ BaseNameFiles = {}) =>
       last.err # NoErr

\* what holds: the first two parts of C23, and the third for a store that
\* holds no other search path than the directory
C23_NothingSwallowedOnFreshStore ==
  /\ (phase = "ready" /\ last.op = "findConfigFile") =>
       (last.found <=> last.err = NoErr)
  /\ (phase = "ready" /\ last.op = "mergeInConfigFile" /\ last.err = NoErr) =>
       /\ Reads # {}
       /\ Store.configFile # <<>>
       /\ Stat(Store.configFile) = "file"
       /\ Store.config = FS[Abs(Store.configFile)].content.data
  /\ (phase = "ready" /\ last.op = "UnmarshalExact" /\ ConfigPath # <<>>
        /\ Stat(ConfigPath) = "dir" /\ BaseNameFiles = {}
        /\ Store.configPaths = <<Abs(ConfigPath)>>) =>
       last.err # NoErr

\* UnmarshalExact on a directory without a config file returned nil, with
\* the settings of a file in the directory of an earlier call
C23_Witness ==
  /\ phase = "ready"
  /\ last.op = "UnmarshalExact"
  /\ Stat(ConfigPath) = "dir"
  /\ BaseNameFiles = {}
  /\ last.err = NoErr
  /\ Store.config # EmptyMap

\* the step being taken is findConfigFile or mergeInConfigFile on a path
\* that exists
Locates(kind) ==
  /\ phase' = "ready"
  /\ last'.op \in {"findConfigFile", "mergeInConfigFile"}
  /\ ConfigPath # <<>>
  /\ Stat(ConfigPath) = kind

\* the store keeps the explicit format it holds unless the step sets the
\* engine's, and keeps its search paths, adding at the end
FormatAndPathsKept ==
  /\ vp'[sch.viper].configType =
       IF \E i \in DOMAIN last'.log : last'.log[i].call = "SetConfigType"
       THEN sch.configFileType ELSE Store.configType
  /\ Len(vp'[sch.viper].configPaths) >= Len(Store.configPaths)
  /\ SubSeq(vp'[sch.viper].configPaths, 1, Len(Store.configPaths)) = Store.configPaths

\* C24 as stated: a later resolve on a file with a supported extension or
\* on a directory leaves the explicit format of an earlier resolve in
\* force, and a resolve on a directory leaves the exact file path of an
\* earlier resolve set.
C24_NeverCleared ==
  [][ /\ (Locates("file") \/ Locates("dir")) => FormatAndPathsKept
      /\ (Locates("dir") /\ last'.op = "findConfigFile" /\ Store.configFile # <<>>) =>
           vp'[sch.viper].configFile = Store.configFile ]_vars

\* C24: the explicit format and the search paths of earlier resolves stay
\* in the store; the exact file path does not: findConfigFile on a
\* directory clears it, and mergeInConfigFile on a directory leaves the
\* file its search found, or none.
C24_FormatKeptFileCleared ==
  [][ /\ (Locates("file") \/ Locates("dir")) => FormatAndPathsKept
      /\ (Locates("dir") /\ last'.op = "findConfigFile") =>
           vp'[sch.viper].configFile = <<>>
      /\ (Locates("dir") /\ last'.op = "mergeInConfigFile") =>
           vp'[sch.viper].configFile = SearchPaths(vp'[sch.viper], 1) ]_vars

\* findConfigFile on a directory, on a store that held the explicit format
\* and the exact file of an earlier resolve: the format is kept, the file is not
C24_Witness ==
  /\ phase = "ready"
  /\ last.op = "findConfigFile"
  /\ Stat(ConfigPath) = "dir"
  /\ Store.configType # <<>>
  /\ CallsOf("SetConfigType") = {}
  /\ Store.configFile = <<>>
====
